---- MODULE Spec2Model ----
(***************************************************************************)
(* HalalVision content script: the decision engine                         *)
(* (HalalVisionDetector.analyzeImage) and the part of the blur compositor  *)
(* (BlurEngine.applyBlur / blurImage) that chooses what is blurred; the    *)
(* pixel functions of BlurEngine (stackBlur, blurRegion, blurBodyRegions); *)
(* and the bookkeeping of blurred elements (blurredElements, wrappers,     *)
(* overlays, CSS filters).                                                 *)
(*                                                                         *)
(* The repository holds three revisions of the content script              *)
(* (src/unnamed/part_000, part_001, part_002).  The variable `build` says  *)
(* which revision is running; every revision is modelled from its own      *)
(* source.                                                                 *)
(*                                                                         *)
(* Numbers.  Probabilities are whole percents (0.7 is 70), coverage        *)
(* thresholds are per mille (0.005 is 5).  A segmentation's data array is  *)
(* kept run-length encoded: a sequence of runs [val, n] stands for n       *)
(* consecutive entries of value val.  A JavaScript value used only for its *)
(* truthiness (results.shouldBlur can be null) is a BOOLEAN.  A radius      *)
(* handed to stackBlur is kept in tenths (2.5 is 25) so that Math.floor    *)
(* has something to do; a pixel is <<r, g, b, a>>.                         *)
(*                                                                         *)
(* Three specifications share the variables.  Spec runs decisions          *)
(* (variable decision); KernelSpec calls the pixel functions on small      *)
(* buffers (variable kernel); DomSpec follows the elements of a page       *)
(* through blurring, rescans and removeAllBlurs (variables dom, last).     *)
(***************************************************************************)
EXTENDS Integers, Sequences, FiniteSets, Bags, TLC

VARIABLES build, phase, settings, detector, decision, kernel, dom, last,
          store, tasks

vars == <<build, phase, settings, detector, decision, kernel, dom, last,
          store, tasks>>

(***************************************************************************)
(* Bounds of the model.                                                    *)
(***************************************************************************)
MaxFaces == 2

MaskLen == 400

MaxSide == 2

MaxElements == 1

MaxCycles == 2

(***************************************************************************)
(* Program constants.                                                      *)
(***************************************************************************)
DefaultBlurIntensity == 25

Builds == {"part_000", "part_001", "part_002"}

FaceApiBuilds == {"part_000", "part_001"}

(* genderProbability < 0.7 (part_000) / < 0.6 (part_001) *)
LowConfidence(b) == IF b = "part_000" THEN 70 ELSE 60

(* segmentation.data.length * 0.005 (part_000, part_001) / * 0.01 (part_002) *)
CoveragePerMille(b) == IF b = "part_002" THEN 10 ELSE 5

(***************************************************************************)
(* Inputs: settings, frames, detector results.                             *)
(***************************************************************************)
Genders == {"male", "female"}

Probabilities == {55, 65, 75}

BlurIntensities == {0, DefaultBlurIntensity}

GenderConfidenceThresholds == {70, 80}

BodyCoverageThresholds == {5, 10}

SettingsSpace ==
    [blurFaces : BOOLEAN, blurMen : BOOLEAN, blurWomen : BOOLEAN,
     blurBodies : BOOLEAN, blurIntensity : BlurIntensities,
     genderConfidenceThreshold : GenderConfidenceThresholds,
     bodyCoverageThreshold : BodyCoverageThresholds]

DEFAULT_SETTINGS ==
    {s \in SettingsSpace :
        /\ s.blurFaces /\ s.blurMen /\ s.blurWomen /\ s.blurBodies
        /\ s.blurIntensity = DefaultBlurIntensity}

(* the i-th face of a frame; distinct faces have distinct boxes *)
BoxAt(i) == [x |-> 40 * i, y |-> 10, width |-> 20, height |-> 30]

FaceKinds == [gender : Genders, genderProbability : Probabilities]

Detections ==
    UNION {[1..n -> FaceKinds] : n \in 0..MaxFaces}

Detection(kinds, i) ==
    [gender |-> kinds[i].gender,
     genderProbability |-> kinds[i].genderProbability,
     box |-> BoxAt(i)]

NullSegmentation == [isNull |-> TRUE, data |-> <<>>]

Segmentation(k) ==
    [isNull |-> FALSE,
     data |-> <<[val |-> 1, n |-> k], [val |-> 0, n |-> MaskLen - k]>>]

PersonPixelCounts == {0, 2, 3, MaskLen \div 50, MaskLen \div 2}

Segmentations == {Segmentation(k) : k \in PersonPixelCounts}

DetectorCalls == {"faces", "probe", "segment"}

(* which external detector calls throw for this frame (at most one here).
   A frame has one list of faces: the gender call and the face-presence
   probe (detectAllFaces with a smaller inputSize) both return it. *)
ThrowSets == {{}} \cup {{c} : c \in DetectorCalls}

Frames ==
    [kinds : Detections, segmentation : Segmentations, throws : ThrowSets]

FrameDetections(frame) ==
    [i \in 1..Len(frame.kinds) |-> Detection(frame.kinds, i)]

(***************************************************************************)
(* HalalVisionDetector                                                     *)
(***************************************************************************)
RECURSIVE personPixelCount(_)
personPixelCount(data) ==
    IF data = <<>> THEN 0
    ELSE (IF Head(data).val > 0 THEN Head(data).n ELSE 0)
         + personPixelCount(Tail(data))

RECURSIVE dataLength(_)
dataLength(data) ==
    IF data = <<>> THEN 0 ELSE Head(data).n + dataLength(Tail(data))

(* mutant: any positive pixel counts as a person *)
hasPersonInSegmentationAnyPixel(segmentation) ==
    IF segmentation.isNull THEN FALSE
    ELSE personPixelCount(segmentation.data) > 0

(* personPixelCount > segmentation.data.length * 0.005 *)
hasPersonInSegmentation000(segmentation) ==
    IF segmentation.isNull THEN FALSE
    ELSE personPixelCount(segmentation.data) * 1000
            > dataLength(segmentation.data) * 5

(* personPixelCount > segmentation.data.length * 0.01 *)
hasPersonInSegmentation002(segmentation) ==
    IF segmentation.isNull THEN FALSE
    ELSE personPixelCount(segmentation.data) * 100
            > dataLength(segmentation.data)

hasPersonInSegmentation(b, segmentation) ==
    IF b = "part_002" THEN hasPersonInSegmentation002(segmentation)
    ELSE hasPersonInSegmentation000(segmentation)

(* segmentBody: null without a body model, null when segmentPerson throws *)
segmentBody(det, frame) ==
    IF ~det.bodyModel THEN NullSegmentation
    ELSE IF "segment" \in frame.throws THEN NullSegmentation
    ELSE frame.segmentation

(* detectFaces (part_002): [] without a face model or when estimateFaces throws *)
detectFaces(det, frame) ==
    IF ~det.faceModel THEN <<>>
    ELSE IF "faces" \in frame.throws THEN <<>>
    ELSE FrameDetections(frame)

(* mutant: the low-confidence test is missing *)
effectiveGenderNoCut(cut, detection) == detection.gender

(* let effectiveGender = gender; if (genderProbability < cut) 'unknown' *)
effectiveGender(cut, detection) ==
    IF detection.genderProbability < cut THEN "unknown"
    ELSE detection.gender

(* mutant: the gender flags look at the detector's label, not at the
   effective gender *)
shouldBlurFaceByLabel(cut, s, detection) ==
    IF s.blurFaces THEN TRUE
    ELSE \/ s.blurMen /\ detection.gender = "male"
         \/ s.blurWomen /\ detection.gender = "female"

shouldBlurFace(cut, s, detection) ==
    IF s.blurFaces THEN TRUE
    ELSE \/ s.blurMen /\ effectiveGender(cut, detection) = "male"
         \/ s.blurWomen /\ effectiveGender(cut, detection) = "female"

(* { topLeft: [box.x, box.y], bottomRight: [box.x + box.width, box.y + box.height] } *)
FaceRegion(box) ==
    [topLeft |-> <<box.x, box.y>>,
     bottomRight |-> <<box.x + box.width, box.y + box.height>>]

RECURSIVE flaggedFaces(_, _, _)
flaggedFaces(cut, s, detections) ==
    IF detections = <<>> THEN <<>>
    ELSE (IF shouldBlurFace(cut, s, Head(detections))
          THEN <<FaceRegion(Head(detections).box)>> ELSE <<>>)
         \o flaggedFaces(cut, s, Tail(detections))

RECURSIVE faceRegions(_)
faceRegions(detections) ==
    IF detections = <<>> THEN <<>>
    ELSE <<FaceRegion(Head(detections).box)>> \o faceRegions(Tail(detections))

InitialResults(det) ==
    [faces |-> <<>>, bodySegmentation |-> NullSegmentation,
     shouldBlur |-> FALSE, isFallback |-> ~det.isLoaded]

(* if (settings.blurFaces || settings.blurMen || settings.blurWomen) *)
faceCall(s) == s.blurFaces \/ s.blurMen \/ s.blurWomen

(* mutant: the body is segmented whatever the faces were *)
runBodyPixAlways(faces, allFaces) == TRUE

(* mutant: the headless case (no face at all) is missing *)
runBodyPixFlaggedOnly(faces, allFaces) == Len(faces) > 0

(* mutant: the flagged-face case is missing *)
runBodyPixNoFacesOnly(faces, allFaces) == Len(allFaces) = 0

(* the ladder that sets runBodyPix: flagged faces, else no face at all *)
runBodyPix(faces, allFaces) ==
    IF Len(faces) > 0 THEN TRUE
    ELSE IF Len(allFaces) = 0 THEN TRUE
    ELSE FALSE

(* the try block of analyzeImage in the face-api revisions; an exception    *)
(* leaves results as they were when it was thrown (empty catch block)       *)
analyzeFaceApi(b, s, det, frame) ==
    LET r0 == InitialResults(det)
        faces == IF faceCall(s)
                 THEN flaggedFaces(LowConfidence(b), s, FrameDetections(frame))
                 ELSE <<>>
        r1 == [r0 EXCEPT !.faces = faces]
        probeCall == s.blurBodies /\ Len(faces) = 0
        seg == IF s.blurBodies /\ runBodyPix(faces, FrameDetections(frame))
               THEN segmentBody(det, frame)
               ELSE NullSegmentation
    IN  IF faceCall(s) /\ "faces" \in frame.throws THEN r0
        ELSE IF probeCall /\ "probe" \in frame.throws THEN r1
        ELSE [r1 EXCEPT
                !.bodySegmentation = seg,
                !.shouldBlur = Len(faces) > 0
                               \/ (~seg.isNull
                                   /\ hasPersonInSegmentation(b, seg))]

(* the external detector calls analyzeImage makes for this frame *)
callsMadeFaceApi(b, s, det, frame) ==
    LET faces == IF faceCall(s)
                 THEN flaggedFaces(LowConfidence(b), s, FrameDetections(frame))
                 ELSE <<>>
        facesThrew == faceCall(s) /\ "faces" \in frame.throws
        probeCall == ~facesThrew /\ s.blurBodies /\ Len(faces) = 0
        probeThrew == probeCall /\ "probe" \in frame.throws
        segmentCall == /\ ~facesThrew /\ ~probeThrew /\ s.blurBodies
                       /\ runBodyPix(faces, FrameDetections(frame))
                       /\ det.bodyModel
    IN  (IF faceCall(s) THEN {"faces"} ELSE {})
        \cup (IF probeCall THEN {"probe"} ELSE {})
        \cup (IF segmentCall THEN {"segment"} ELSE {})

callsMade002(s, det, frame) ==
    (IF s.blurFaces /\ det.faceModel THEN {"faces"} ELSE {})
    \cup (IF s.blurBodies /\ det.bodyModel THEN {"segment"} ELSE {})

callsMade(b, s, det, frame) ==
    IF ~det.isLoaded THEN {}
    ELSE IF b = "part_002" THEN callsMade002(s, det, frame)
    ELSE callsMadeFaceApi(b, s, det, frame)

(* mutant: the blurBodies flag is not consulted *)
analyzeImage000BodiesAlways(s, det, frame) ==
    IF ~det.isLoaded THEN InitialResults(det)
    ELSE analyzeFaceApi("part_000", [s EXCEPT !.blurBodies = TRUE], det, frame)

analyzeImage000(s, det, frame) ==
    IF ~det.isLoaded THEN InitialResults(det)
    ELSE analyzeFaceApi("part_000", s, det, frame)

analyzeImage001(s, det, frame) ==
    IF ~det.isLoaded THEN InitialResults(det)
    ELSE analyzeFaceApi("part_001", s, det, frame)

(* mutant: no return after the isLoaded test *)
analyzeImage002NoReturn(s, det, frame) ==
    LET faces == IF s.blurFaces /\ det.faceModel
                 THEN faceRegions(detectFaces(det, frame)) ELSE <<>>
        seg == IF s.blurBodies /\ det.bodyModel
               THEN segmentBody(det, frame) ELSE NullSegmentation
    IN  [faces |-> faces, bodySegmentation |-> seg,
         shouldBlur |-> Len(faces) > 0
                        \/ (~seg.isNull
                            /\ hasPersonInSegmentation("part_002", seg)),
         isFallback |-> ~det.isLoaded]

(* detectFaces and segmentBody catch their own exceptions, so no detector
   exception reaches the catch block of part_002's analyzeImage *)
analyzeImage002(s, det, frame) ==
    IF ~det.isLoaded
    THEN [InitialResults(det) EXCEPT !.shouldBlur = TRUE]
    ELSE LET faces == IF s.blurFaces /\ det.faceModel
                      THEN faceRegions(detectFaces(det, frame)) ELSE <<>>
             seg == IF s.blurBodies /\ det.bodyModel
                    THEN segmentBody(det, frame) ELSE NullSegmentation
         IN  [faces |-> faces, bodySegmentation |-> seg,
              shouldBlur |-> Len(faces) > 0
                             \/ (~seg.isNull
                                 /\ hasPersonInSegmentation("part_002", seg)),
              isFallback |-> FALSE]

analyzeImage(b, s, det, frame) ==
    CASE b = "part_000" -> analyzeImage000(s, det, frame)
      [] b = "part_001" -> analyzeImage001(s, det, frame)
      [] b = "part_002" -> analyzeImage002(s, det, frame)

(***************************************************************************)
(* BlurEngine: what applyBlur does with a decision                         *)
(***************************************************************************)
(* stackBlur: radius < 1 returns at once; otherwise execution reaches       *)
(*   const divsum = (div + 1) >> 1;  divsum *= divsum;                      *)
(* and the assignment to a const binding raises TypeError                   *)
stackBlurThrows(radius) == radius >= 1

NoComposite ==
    [output |-> "none", regions |-> <<>>, bodyMask |-> NullSegmentation]

(* applyCSSBlur: filter blur(blurIntensity px) on the whole element *)
applyCSSBlur(regions, bodyMask) ==
    [output |-> "css", regions |-> regions, bodyMask |-> bodyMask]

(* blurImage: regions = the faces handed to blurRegion, bodyMask = the     *)
(* segmentation handed to blurBodyRegions; an exception inside the try     *)
(* block ends in applyCSSBlur, otherwise the canvas becomes the overlay    *)
blurImage(s, results) ==
    LET faceLoop == s.blurFaces /\ Len(results.faces) > 0
        faceThrow == faceLoop /\ stackBlurThrows(s.blurIntensity)
        regions == IF ~faceLoop THEN <<>>
                   ELSE IF faceThrow THEN <<results.faces[1]>>
                   ELSE results.faces
        bodyCall == ~faceThrow /\ s.blurBodies
                    /\ ~results.bodySegmentation.isNull
        bodyMask == IF bodyCall THEN results.bodySegmentation
                    ELSE NullSegmentation
        bodyThrow == bodyCall /\ stackBlurThrows(s.blurIntensity)
    IN  IF faceThrow \/ bodyThrow THEN applyCSSBlur(regions, bodyMask)
        ELSE [output |-> "overlay", regions |-> regions, bodyMask |-> bodyMask]

applyBlur(s, results) ==
    IF results.isFallback THEN applyCSSBlur(<<>>, NullSegmentation)
    ELSE blurImage(s, results)

(***************************************************************************)
(* BlurEngine: the pixel functions.  A buffer is a sequence of width *     *)
(* height pixels <<r, g, b, a>> in row order; a function that can raise    *)
(* returns [threw, pixels] with the buffer as it is when control leaves.   *)
(***************************************************************************)
Max(a, b) == IF a > b THEN a ELSE b

(* Math.floor of a number kept in tenths *)
MathFloor(tenths) == tenths \div 10

(* mutant: the early return tests radius < 0 *)
stackBlurReturnsBelowZero(pixels, width, height, radius) ==
    IF MathFloor(radius) < 0 THEN [threw |-> FALSE, pixels |-> pixels]
    ELSE [threw |-> TRUE, pixels |-> pixels]

(* stackBlur: radius = Math.floor(radius); if (radius < 1) return;          *)
(* otherwise the typed arrays are allocated and execution reaches           *)
(*   const divsum = (div + 1) >> 1;  divsum *= divsum;                      *)
(* where the assignment to a const binding raises TypeError; nothing has    *)
(* been written to pixels by then and the two passes are never reached      *)
stackBlur(pixels, width, height, radius) ==
    IF MathFloor(radius) < 1 THEN [threw |-> FALSE, pixels |-> pixels]
    ELSE [threw |-> TRUE, pixels |-> pixels]

(***************************************************************************)
(* The two passes of stackBlur (the statements after the const            *)
(* assignment), one colour channel at a time.  A channel is the sequence   *)
(* of one byte of every pixel; indices are the code's, counted from 0.  A  *)
(* sum is [nan, v]: adding the undefined that a typed array yields outside *)
(* its range makes it NaN for good.                                        *)
(***************************************************************************)
Min(a, b) == IF a < b THEN a ELSE b

Channel(pixels, c) == [k \in 1..Len(pixels) |-> pixels[k][c]]

ZeroSum == [nan |-> FALSE, v |-> 0]

(* sum += arr[idx] *)
Plus(sum, arr, idx) ==
    IF sum.nan \/ idx < 0 \/ idx >= Len(arr) THEN [nan |-> TRUE, v |-> 0]
    ELSE [nan |-> FALSE, v |-> sum.v + arr[idx + 1]]

(* sum += arr[in] - arr[out] *)
PlusMinus(sum, arr, in, out) ==
    IF sum.nan \/ in < 0 \/ in >= Len(arr) \/ out < 0 \/ out >= Len(arr)
    THEN [nan |-> TRUE, v |-> 0]
    ELSE [nan |-> FALSE, v |-> sum.v + arr[in + 1] - arr[out + 1]]

(* Math.round(sum / div) stored into a Uint8ClampedArray: NaN is stored as *)
(* 0; the sums are never negative and div is odd, so no tie occurs         *)
Stored(sum, div) ==
    IF sum.nan THEN 0 ELSE Min(255, (2 * sum.v + div) \div (2 * div))

(* p / 4 = yi + Math.min(wm, Math.max(i, 0)) *)
hInitIndex(yi, wm, i) == yi + Min(wm, Max(i, 0))

(* vmin[x] = Math.min(x + radius + 1, wm); vmax[x] = Math.max(x - radius, 0) *)
hIn(yw, x, radius, wm) == yw + Min(x + radius + 1, wm)

hOut(yw, x, radius) == yw + Max(x - radius, 0)

(* yi = Math.max(0, yp) + x with yp = i * width *)
vInitIndex(width, x, i) == Max(0, i * width) + x

(* p1 = x + vmin[y], vmin[y] = Math.min(y + radius + 1, hm) * width;        *)
(* p2 = x + vmax[y], vmax[y] = Math.max(y - radius, 0) * width              *)
vIn(width, x, y, radius, hm) == x + Min(y + radius + 1, hm) * width

vOut(width, x, y, radius) == x + Max(y - radius, 0) * width

(* for (i = -radius; i <= radius; i++) rsum += pixels[p] *)
RECURSIVE hWindow(_, _, _, _, _, _)
hWindow(ch, yi, wm, radius, i, sum) ==
    IF i > radius THEN sum
    ELSE hWindow(ch, yi, wm, radius, i + 1,
                 Plus(sum, ch, hInitIndex(yi, wm, i)))

(* for (x = 0; x < width; x++) { r[yi] = Math.round(rsum / div); ... } *)
RECURSIVE hSlide(_, _, _, _, _, _)
hSlide(ch, yw, width, radius, x, sum) ==
    IF x >= width THEN <<>>
    ELSE <<Stored(sum, radius + radius + 1)>>
         \o hSlide(ch, yw, width, radius, x + 1,
                   PlusMinus(sum, ch, hIn(yw, x, radius, width - 1),
                             hOut(yw, x, radius)))

(* the horizontal pass: the array r (g, b) of one channel *)
RECURSIVE horizontalPass(_, _, _, _, _)
horizontalPass(ch, width, height, radius, y) ==
    IF y >= height THEN <<>>
    ELSE hSlide(ch, y * width, width, radius, 0,
                hWindow(ch, y * width, width - 1, radius, -radius, ZeroSum))
         \o horizontalPass(ch, width, height, radius, y + 1)

(* for (i = -radius; i <= radius; i++) { yi = ...; rsum += r[yi]; } *)
RECURSIVE vWindow(_, _, _, _, _, _)
vWindow(r, width, x, radius, i, sum) ==
    IF i > radius THEN sum
    ELSE vWindow(r, width, x, radius, i + 1,
                 Plus(sum, r, vInitIndex(width, x, i)))

(* for (y = 0; y < height; y++) { pixels[yi * 4] = Math.round(...); ... }:  *)
(* the values written down column x                                         *)
RECURSIVE vSlide(_, _, _, _, _, _, _)
vSlide(r, width, height, radius, x, y, sum) ==
    IF y >= height THEN <<>>
    ELSE <<Stored(sum, radius + radius + 1)>>
         \o vSlide(r, width, height, radius, x, y + 1,
                   PlusMinus(sum, r, vIn(width, x, y, radius, height - 1),
                             vOut(width, x, y, radius)))

(* the vertical pass over the array r: the channel as written to pixels *)
verticalPass(r, width, height, radius) ==
    LET column == [x \in 0..(width - 1) |->
                     vSlide(r, width, height, radius, x, 0,
                            vWindow(r, width, x, radius, -radius, ZeroSum))]
    IN  [k \in 1..(width * height) |->
            column[(k - 1) % width][((k - 1) \div width) + 1]]

(* mutant: the vertical pass also writes pixels[yi * 4 + 3] *)
stackBlurPassesAlpha(pixels, width, height, radius) ==
    LET out == [c \in 1..3 |->
                  verticalPass(
                    horizontalPass(Channel(pixels, c), width, height, radius, 0),
                    width, height, radius)]
    IN  [k \in 1..Len(pixels) |->
            <<out[1][k], out[2][k], out[3][k], out[3][k]>>]

(* lines 604-671: both passes on r, g, b; byte 3 of a pixel is not written *)
stackBlurPasses(pixels, width, height, radius) ==
    LET out == [c \in 1..3 |->
                  verticalPass(
                    horizontalPass(Channel(pixels, c), width, height, radius, 0),
                    width, height, radius)]
    IN  [k \in 1..Len(pixels) |->
            <<out[1][k], out[2][k], out[3][k], pixels[k][4]>>]

(* the indices the passes read: of pixels / 4 in the horizontal pass, of r, *)
(* g, b in the vertical pass                                                *)
horizontalReads(width, height, radius) ==
    UNION {{hInitIndex(y * width, width - 1, i) : i \in (-radius)..radius}
           \cup {hIn(y * width, x, radius, width - 1) : x \in 0..(width - 1)}
           \cup {hOut(y * width, x, radius) : x \in 0..(width - 1)}
           : y \in 0..(height - 1)}

verticalInitReads(width, height, radius) ==
    {vInitIndex(width, x, i) : x \in 0..(width - 1), i \in (-radius)..radius}

verticalSlideReads(width, height, radius) ==
    UNION {{vIn(width, x, y, radius, height - 1), vOut(width, x, y, radius)}
           : x \in 0..(width - 1), y \in 0..(height - 1)}

(* ctx.getImageData(sx, sy, sw, sh) on a canvas [width, height, data]:      *)
(* positions outside the canvas read as transparent black                   *)
getImageData(canvas, sx, sy, sw, sh) ==
    [k \in 1..(sw * sh) |->
        LET cx == sx + ((k - 1) % sw)
            cy == sy + ((k - 1) \div sw)
        IN  IF cx >= 0 /\ cx < canvas.width /\ cy >= 0 /\ cy < canvas.height
            THEN canvas.data[cy * canvas.width + cx + 1]
            ELSE <<0, 0, 0, 0>>]

(* ctx.putImageData(imageData, dx, dy): positions outside the canvas are    *)
(* dropped                                                                  *)
putImageData(canvas, pixels, dx, dy, sw, sh) ==
    [canvas EXCEPT !.data =
        [j \in 1..(canvas.width * canvas.height) |->
            LET cx == (j - 1) % canvas.width
                cy == (j - 1) \div canvas.width
            IN  IF cx >= dx /\ cx < dx + sw /\ cy >= dy /\ cy < dy + sh
                THEN pixels[(cy - dy) * sw + (cx - dx) + 1]
                ELSE canvas.data[j]]]

(* Math.max(width, height) * 0.2; the boxes used here have a larger side    *)
(* that is a multiple of 5, so the product is a whole number                *)
Padding(width, height) == (Max(width, height) * 2) \div 10

(* blurRegion: the rectangle handed to getImageData and putImageData *)
ExpandedRegion(topLeft, bottomRight) ==
    LET x == topLeft[1]
        y == topLeft[2]
        width == bottomRight[1] - topLeft[1]
        height == bottomRight[2] - topLeft[2]
        padding == Padding(width, height)
    IN  [x |-> Max(0, x - padding), y |-> Max(0, y - padding),
         width |-> width + padding * 2, height |-> height + padding * 2]

(* blurRegion(ctx, topLeft, bottomRight) with settings.blurIntensity *)
blurRegion(canvas, topLeft, bottomRight, blurIntensity) ==
    LET e == ExpandedRegion(topLeft, bottomRight)
        imageData == getImageData(canvas, e.x, e.y, e.width, e.height)
        blurred == stackBlur(imageData, e.width, e.height, 10 * blurIntensity)
    IN  IF blurred.threw THEN [threw |-> TRUE, canvas |-> canvas, read |-> e]
        ELSE [threw |-> FALSE,
              canvas |-> putImageData(canvas, blurred.pixels, e.x, e.y,
                                      e.width, e.height),
              read |-> e]

(* segmentation.data[i] for the 1-based position k of the run-length data;  *)
(* -1 stands for undefined (k is past the end)                              *)
RECURSIVE dataAt(_, _)
dataAt(data, k) ==
    IF data = <<>> THEN -1
    ELSE IF k <= Head(data).n THEN Head(data).val
    ELSE dataAt(Tail(data), k - Head(data).n)

(* mask = new Uint8Array(width * height); mask[i] = data[i] > 0 ? 255 : 0   *)
(* for i < data.length; a write past the end of mask is dropped             *)
createMaskFromSegmentation(segmentation, width, height) ==
    [k \in 1..(width * height) |->
        IF k <= dataLength(segmentation.data)
           /\ dataAt(segmentation.data, k) > 0
        THEN 255 ELSE 0]

(* blurBodyRegions: pixels is the full canvas (getImageData(0, 0, width,    *)
(* height)); blurredData is a copy handed to stackBlur; where mask[i] > 0   *)
(* the r, g, b bytes are taken from the copy; putImageData follows          *)
blurBodyRegions(pixels, segmentation, width, height, blurIntensity) ==
    LET mask == createMaskFromSegmentation(segmentation, width, height)
        blurred == stackBlur(pixels, width, height, 10 * blurIntensity)
    IN  IF blurred.threw THEN [threw |-> TRUE, pixels |-> pixels]
        ELSE [threw |-> FALSE,
              pixels |->
                [k \in 1..Len(pixels) |->
                    IF mask[k] > 0
                    THEN <<blurred.pixels[k][1], blurred.pixels[k][2],
                           blurred.pixels[k][3], pixels[k][4]>>
                    ELSE pixels[k]]]

(***************************************************************************)
(* The state machine                                                       *)
(***************************************************************************)
NoDetector == [isLoaded |-> FALSE, faceModel |-> FALSE, bodyModel |-> FALSE]

(* no pixel function has been called *)
NoCall ==
    [fn |-> "none", pixels |-> <<>>, width |-> 0, height |-> 0, radius |-> 0,
     segmentation |-> NullSegmentation, topLeft |-> <<0, 0>>,
     bottomRight |-> <<0, 0>>, threw |-> FALSE, out |-> <<>>,
     read |-> [x |-> 0, y |-> 0, width |-> 0, height |-> 0],
     reads |-> [horizontal |-> {}, verticalInit |-> {}, verticalSlide |-> {}]]

Elements == 1..MaxElements

(* an img element the content script has not touched: no entry in          *)
(* blurredElements, style.filter '', no wrapper, not in processedElements  *)
(* record: the element's entry in blurredElements ("css" when its overlay   *)
(* is null); filter: <<>> for '' and <<n>> for blur(n px); overlays: the    *)
(* overlay divs in its wrapper, each with the canvas it shows; badges: the  *)
(* number of badges in its wrapper                                          *)
FreshElement ==
    [record |-> "none", filter |-> <<>>, wrapper |-> FALSE,
     overlays |-> <<>>, overlayHidden |-> FALSE, badges |-> 0,
     processed |-> FALSE]

FreshPage == [e \in Elements |-> FreshElement]

(* nothing has been done to an element yet *)
NoOp ==
    [op |-> "none", el |-> 0, results |-> InitialResults(NoDetector),
     had |-> FALSE, changed |-> FALSE, repeat |-> FALSE, error |-> FALSE,
     chain |-> 0]

(* the settings the service worker stores on install (DEFAULT_SETTINGS of  *)
(* service-worker.js): the main switch, one representative of the other    *)
(* toggles, and the whitelist                                              *)
InstalledSettings == [enabled |-> TRUE, blurFaces |-> TRUE, whitelist |-> {}]

(* the default of the getStats handler when nothing is stored *)
NoStats == [imagesProcessed |-> 0, videosProcessed |-> 0]

(* chrome.storage.sync 'settings', chrome.storage.local 'stats' and the    *)
(* badge text after install: no badge text has been set                    *)
InstalledStore ==
    [settings |-> InstalledSettings, stats |-> NoStats, badge |-> ""]

(* no extension page is open, no handler of the service worker is in       *)
(* progress, no message has been sent to the tab                           *)
NoTasks ==
    [copy |-> [s \in {"options", "popup"} |-> <<>>],
     handlers |-> EmptyBag,
     tab |-> {},
     completed |-> FALSE,
     by |-> [f \in {"enabled", "blurFaces"} |-> "nobody"],
     calls |-> NoStats]

(* outcomes of HalalVisionDetector.initialize *)
LoadOutcomes(b) ==
    IF b = "part_002"
    THEN {NoDetector,
          [isLoaded |-> FALSE, faceModel |-> TRUE, bodyModel |-> FALSE],
          [isLoaded |-> TRUE, faceModel |-> TRUE, bodyModel |-> TRUE]}
    ELSE {NoDetector,
          [isLoaded |-> TRUE, faceModel |-> TRUE, bodyModel |-> FALSE],
          [isLoaded |-> TRUE, faceModel |-> TRUE, bodyModel |-> TRUE]}

Init ==
    /\ build \in Builds
    /\ phase = "loading"
    /\ settings \in DEFAULT_SETTINGS
    /\ detector = NoDetector
    /\ decision = <<>>
    /\ kernel = NoCall
    /\ dom = FreshPage
    /\ last = NoOp
    /\ store = InstalledStore
    /\ tasks = NoTasks

(* detector = new HalalVisionDetector(); await detector.initialize() *)
DetectorInitialize ==
    /\ phase = "loading"
    /\ \E d \in LoadOutcomes(build) : detector' = d
    /\ phase' = "ready"
    /\ UNCHANGED <<build, settings, decision, kernel, dom, last,
                 store, tasks>>

(* chrome.runtime.onMessage 'settingsUpdated': settings = message.settings *)
SettingsUpdated ==
    /\ decision = <<>>
    /\ \E s \in SettingsSpace : settings' = s
    /\ UNCHANGED <<build, phase, detector, decision, kernel, dom, last,
                 store, tasks>>

(* the values the local variable effectiveGender takes in the face loop *)
EffectiveGenders(b, frame) ==
    [i \in 1..Len(frame.kinds) |->
        effectiveGender(LowConfidence(b), Detection(frame.kinds, i))]

(* processImage: analyse, then applyBlur when results.shouldBlur *)
ProcessImage ==
    /\ phase = "ready"
    /\ decision = <<>>
    /\ \E frame \in Frames :
         LET results == analyzeImage(build, settings, detector, frame)
         IN  decision' =
               <<[frame |-> frame,
                  calls |-> callsMade(build, settings, detector, frame),
                  results |-> results,
                  effective |->
                     IF /\ "faces" \in callsMade(build, settings, detector, frame)
                        /\ "faces" \notin frame.throws
                        /\ build \in FaceApiBuilds
                     THEN EffectiveGenders(build, frame) ELSE <<>>,
                  composite |-> IF results.shouldBlur
                                THEN applyBlur(settings, results)
                                ELSE NoComposite]>>
    /\ UNCHANGED <<build, phase, settings, detector, kernel, dom, last,
                 store, tasks>>

(* the cycle ends: results and overlay canvas are local to it *)
ProcessImageReturn ==
    /\ decision # <<>>
    /\ decision' = <<>>
    /\ UNCHANGED <<build, phase, settings, detector, kernel, dom, last,
                 store, tasks>>

Next ==
    \/ DetectorInitialize
    \/ SettingsUpdated
    \/ ProcessImage
    \/ ProcessImageReturn

Spec == Init /\ [][Next]_vars

(***************************************************************************)
(* KernelSpec: the pixel functions called on small buffers                 *)
(***************************************************************************)
Palette == {<<0, 0, 0, 255>>, <<200, 100, 50, 128>>}

Sides == 1..MaxSide

Buffers(width, height) == [1..(width * height) -> Palette]

(* radii in tenths: -1, -0.5, 0, 0.5, 0.9, 1, 2.5 *)
Radii == {-10, -5, 0, 5, 9, 10, 25}

(* segmentation.data of a given length, every entry its own run *)
SegmentationOf(bits) ==
    [isNull |-> FALSE,
     data |-> [k \in 1..Len(bits) |-> [val |-> bits[k], n |-> 1]]]

MaskBits(len) == [1..len -> {0, 1}]

(* the overlay canvas of blurImage: a picture in which every pixel differs *)
CanvasOf(width, height) ==
    [width |-> width, height |-> height,
     data |-> [j \in 1..(width * height) |-> <<j % 256, 0, 0, 255>>]]

CanvasSides == {10, 12}

(* face rectangles as analyzeImage stores them *)
RegionBoxes ==
    {[x |-> x, y |-> y, width |-> w, height |-> h] :
        x \in {0, 2, 5}, y \in {0, 2}, w \in {5, 10}, h \in {5, 10}}

KernelSettings ==
    {s \in SettingsSpace :
        /\ s.blurFaces /\ s.blurMen /\ s.blurWomen /\ s.blurBodies
        /\ s.genderConfidenceThreshold = 70 /\ s.bodyCoverageThreshold = 5}

(* BlurEngine is the same text in the three revisions *)
KernelInit ==
    /\ build = "part_000"
    /\ phase = "ready"
    /\ settings \in KernelSettings
    /\ detector = NoDetector
    /\ decision = <<>>
    /\ kernel = NoCall
    /\ dom = FreshPage
    /\ last = NoOp
    /\ store = InstalledStore
    /\ tasks = NoTasks

(* this.stackBlur(pixels, width, height, radius) *)
CallStackBlur ==
    /\ kernel = NoCall
    /\ \E width \in Sides, height \in Sides, radius \in Radii :
         \E pixels \in Buffers(width, height) :
            LET r == stackBlur(pixels, width, height, radius)
            IN  kernel' = [NoCall EXCEPT
                             !.fn = "stackBlur", !.pixels = pixels,
                             !.width = width, !.height = height,
                             !.radius = radius,
                             !.threw = r.threw, !.out = r.pixels]
    /\ UNCHANGED <<build, phase, settings, detector, decision, dom, last,
                 store, tasks>>

(* this.blurRegion(overlayCtx, face.topLeft, face.bottomRight) *)
CallBlurRegion ==
    /\ kernel = NoCall
    /\ \E width \in CanvasSides, height \in CanvasSides, box \in RegionBoxes :
         LET canvas == CanvasOf(width, height)
             face == FaceRegion(box)
             r == blurRegion(canvas, face.topLeft, face.bottomRight,
                             settings.blurIntensity)
         IN  kernel' = [NoCall EXCEPT
                          !.fn = "blurRegion", !.pixels = canvas.data,
                          !.width = width, !.height = height,
                          !.radius = 10 * settings.blurIntensity,
                          !.topLeft = face.topLeft,
                          !.bottomRight = face.bottomRight,
                          !.threw = r.threw, !.out = r.canvas.data,
                          !.read = r.read]
    /\ UNCHANGED <<build, phase, settings, detector, decision, dom, last,
                 store, tasks>>

(* this.blurBodyRegions(overlayCtx, results.bodySegmentation, width, height) *)
CallBlurBodyRegions ==
    /\ kernel = NoCall
    /\ \E width \in Sides, height \in Sides :
         \E pixels \in Buffers(width, height),
            bits \in MaskBits(width * height) :
            LET r == blurBodyRegions(pixels, SegmentationOf(bits), width,
                                     height, settings.blurIntensity)
            IN  kernel' = [NoCall EXCEPT
                             !.fn = "blurBodyRegions", !.pixels = pixels,
                             !.width = width, !.height = height,
                             !.radius = 10 * settings.blurIntensity,
                             !.segmentation = SegmentationOf(bits),
                             !.threw = r.threw, !.out = r.pixels]
    /\ UNCHANGED <<build, phase, settings, detector, decision, dom, last,
                 store, tasks>>

(* the call has returned, or its exception has reached the catch block of  *)
(* blurImage                                                                *)
KernelReturn ==
    /\ kernel # NoCall
    /\ kernel' = NoCall
    /\ UNCHANGED <<build, phase, settings, detector, decision, dom, last,
                 store, tasks>>

KernelNext ==
    \/ CallStackBlur
    \/ CallBlurRegion
    \/ CallBlurBodyRegions
    \/ KernelReturn

KernelSpec == KernelInit /\ [][KernelNext]_vars

(***************************************************************************)
(* PassesSpec: calls of stackBlur, and the two passes run from the state   *)
(* in which line 604 is entered (radius >= 1, the typed arrays allocated). *)
(* In the revisions at hand no call of stackBlur gets there (see           *)
(* stackBlur); the passes are followed here as they are written.           *)
(***************************************************************************)
(* radii after Math.floor, at least 1; they reach and exceed the sides *)
PassRadii == 1..(MaxSide + 1)

(* lines 604-671 on a buffer *)
RunPasses ==
    /\ kernel = NoCall
    /\ \E width \in Sides, height \in Sides, radius \in PassRadii :
         \E pixels \in Buffers(width, height) :
            kernel' = [NoCall EXCEPT
                         !.fn = "passes", !.pixels = pixels,
                         !.width = width, !.height = height,
                         !.radius = 10 * radius,
                         !.out = stackBlurPasses(pixels, width, height, radius),
                         !.reads =
                            [horizontal |->
                                horizontalReads(width, height, radius),
                             verticalInit |->
                                verticalInitReads(width, height, radius),
                             verticalSlide |->
                                verticalSlideReads(width, height, radius)]]
    /\ UNCHANGED <<build, phase, settings, detector, decision, dom, last,
                 store, tasks>>

PassesNext ==
    \/ CallStackBlur
    \/ RunPasses
    \/ KernelReturn

PassesSpec == KernelInit /\ [][PassesNext]_vars

(***************************************************************************)
(* DomSpec: the img elements of a page.  dom[e] is what the content script *)
(* has done to element e; last is the latest operation on the page: which  *)
(* one, on which element, with which results, whether the element had an   *)
(* entry in blurredElements before, whether the operation changed the      *)
(* element, whether an exception was raised, whether it repeated the       *)
(* applyBlur before it, and how far the page is into the sequence          *)
(* applyBlur (1), removeAllBlurs (2), safe decision (3) on one element.    *)
(***************************************************************************)
(* mutant: the blurredElements.has test is missing *)
applyBlurredOverlayUnchecked(el, blurredCanvas, isCSSOnly, s) ==
    LET overlay == ~isCSSOnly /\ blurredCanvas.output = "overlay"
    IN  [el EXCEPT
           !.wrapper = TRUE,
           !.overlays = IF overlay THEN Append(@, blurredCanvas) ELSE @,
           !.filter = IF overlay THEN @ ELSE <<s.blurIntensity>>,
           !.badges = @ + 1,
           !.record = IF overlay THEN "overlay" ELSE "css"]

(* applyBlurredOverlay(originalImg, blurredCanvas, isCSSOnly): nothing when *)
(* the element is in blurredElements; otherwise the wrapper is created      *)
(* unless the parent is one, an overlay div is appended (or the CSS filter  *)
(* set), a badge is appended and the entry is stored                        *)
applyBlurredOverlay(el, blurredCanvas, isCSSOnly, s) ==
    IF el.record # "none" THEN el
    ELSE LET overlay == ~isCSSOnly /\ blurredCanvas.output = "overlay"
         IN  [el EXCEPT
                !.wrapper = TRUE,
                !.overlays = IF overlay THEN Append(@, blurredCanvas) ELSE @,
                !.filter = IF overlay THEN @ ELSE <<s.blurIntensity>>,
                !.badges = @ + 1,
                !.record = IF overlay THEN "overlay" ELSE "css"]

(* applyCSSBlur(element) on the element's state *)
applyCSSBlurTo(el, s) ==
    IF el.record # "none" THEN el
    ELSE applyBlurredOverlay([el EXCEPT !.filter = <<s.blurIntensity>>],
                             NoComposite, TRUE, s)

(* mutant: the isFallback test is missing *)
applyBlurToAnalysed(el, s, results) ==
    LET canvas == blurImage(s, results)
    IN  IF canvas.output = "overlay"
        THEN applyBlurredOverlay(el, canvas, FALSE, s)
        ELSE applyCSSBlurTo(el, s)

(* applyBlur(element, detectionResults) for an IMG: the fallback, or        *)
(* blurImage ending in applyBlurredOverlay(img, overlay) or, after an       *)
(* exception, in applyCSSBlur(img)                                          *)
applyBlurTo(el, s, results) ==
    IF results.isFallback THEN applyCSSBlurTo(el, s)
    ELSE LET canvas == blurImage(s, results)
         IN  IF canvas.output = "overlay"
             THEN applyBlurredOverlay(el, canvas, FALSE, s)
             ELSE applyCSSBlurTo(el, s)

(* the detectionResults { isFallback: true } of the precautionary blur *)
FallbackResults ==
    [faces |-> <<>>, bodySegmentation |-> NullSegmentation,
     shouldBlur |-> FALSE, isFallback |-> TRUE]

(* mutant: blurredElements is cleared, the wrappers stay in the page *)
removeAllBlursTableOnly(page) ==
    [e \in DOMAIN page |-> [page[e] EXCEPT !.record = "none"]]

(* removeAllBlurs: every wrapper that holds an img is removed with what it  *)
(* contains and the img put back in its place; blurredElements.clear().     *)
(* style.filter of the img is not touched                                   *)
removeAllBlurs(page) ==
    [e \in DOMAIN page |->
        [page[e] EXCEPT
           !.wrapper = FALSE, !.overlays = <<>>, !.overlayHidden = FALSE,
           !.badges = 0, !.record = "none"]]

(* part_000 calls removeAllBlurs without defining it: ReferenceError *)
HasRemoveAllBlurs(b) == b # "part_000"

(* processImage's else branch, blurEngine.removeBlur(img): BlurEngine has   *)
(* no such method, the call raises TypeError; part_002 has no else branch   *)
RemoveBlurThrows(b) == b \in FaceApiBuilds

(* the four flags are switched together here *)
DomSettings ==
    {s \in SettingsSpace :
        /\ s.blurMen = s.blurFaces /\ s.blurWomen = s.blurFaces
        /\ s.blurBodies = s.blurFaces
        /\ s.genderConfidenceThreshold = 70 /\ s.bodyCoverageThreshold = 5}

(* the pictures an img can show: nobody; one man's face; a body, no face *)
DomFrames ==
    {[kinds |-> <<>>, segmentation |-> Segmentation(0), throws |-> {}],
     [kinds |-> <<[gender |-> "male", genderProbability |-> 75]>>,
      segmentation |-> Segmentation(0), throws |-> {}],
     [kinds |-> <<>>, segmentation |-> Segmentation(MaskLen \div 2),
      throws |-> {}]}

(* the content script starts on an enabled page that is not whitelisted *)
DomInit ==
    /\ build \in Builds
    /\ phase = "loading"
    /\ settings \in DomSettings \cap DEFAULT_SETTINGS
    /\ detector = NoDetector
    /\ decision = <<>>
    /\ kernel = NoCall
    /\ dom = FreshPage
    /\ last = NoOp
    /\ store = InstalledStore
    /\ tasks = NoTasks

(* what an element shows and what is stored about it, processedElements   *)
(* apart                                                                    *)
Look(el) == [el EXCEPT !.processed = FALSE]

(* the ghost record of an operation op on element e *)
Op(op, e, results, before, after, error) ==
    [op |-> op, el |-> e, results |-> results,
     had |-> before.record # "none",
     changed |-> Look(after) # Look(before),
     repeat |-> /\ op = "applyBlur" /\ last.op = "applyBlur"
                /\ last.el = e /\ last.results = results,
     error |-> error,
     chain |-> CASE op = "applyBlur" -> 1
                 [] op = "removeAllBlurs" ->
                        IF last.chain = 1 THEN 2 ELSE 0
                 [] op = "safe" ->
                        IF last.chain = 2 /\ last.el = e THEN 3 ELSE 0
                 [] OTHER -> last.chain]

(* initialize: the detector is loaded; part_002 then gives every valid      *)
(* image the precautionary fallback blur.  (part_000 stops here when the    *)
(* models did not load; its message and storage listeners still start       *)
(* processExistingMedia afterwards.)                                        *)
DomInitialize ==
    /\ phase = "loading"
    /\ \E d \in LoadOutcomes(build) : detector' = d
    /\ phase' = "ready"
    /\ dom' = IF build = "part_002"
              THEN [e \in Elements |->
                      applyBlurTo(dom[e], settings, FallbackResults)]
              ELSE dom
    /\ last' = IF build = "part_002"
               THEN Op("applyBlur", 1, FallbackResults, dom[1],
                       applyBlurTo(dom[1], settings, FallbackResults), FALSE)
               ELSE last
    /\ UNCHANGED <<build, settings, decision, kernel, store, tasks>>

(* settingsUpdated / storage change with enabled: settings = the new value; *)
(* processExistingMedia() is started (the rescans below)                    *)
DomSettingsUpdated ==
    /\ phase = "ready"
    /\ \E s \in DomSettings : settings' = s
    /\ last' = [last EXCEPT !.op = "other", !.repeat = FALSE,
                            !.error = FALSE]
    /\ UNCHANGED <<build, phase, detector, decision, kernel, dom,
                 store, tasks>>

(* settingsUpdated / storage change with enabled = false (and, in part_001  *)
(* and part_002, siteWhitelisted): removeAllBlurs()                         *)
RemoveAllBlurs ==
    /\ phase = "ready"
    /\ \E s \in DomSettings : settings' = s
    /\ dom' = IF HasRemoveAllBlurs(build) THEN removeAllBlurs(dom) ELSE dom
    /\ last' = LET e == IF last.el \in Elements THEN last.el ELSE 1
               IN  Op("removeAllBlurs", e, last.results, dom[e], dom'[e],
                      ~HasRemoveAllBlurs(build))
    /\ UNCHANGED <<build, phase, detector, decision, kernel,
                 store, tasks>>

(* part_002, processExistingMedia with the viewport observer installed: an  *)
(* unprocessed image is marked processed and given the fallback blur        *)
WatchedFallback(e) ==
    /\ phase = "ready"
    /\ build = "part_002"
    /\ ~dom[e].processed
    /\ dom' = [dom EXCEPT ![e] =
                 [applyBlurTo(dom[e], settings, FallbackResults)
                    EXCEPT !.processed = TRUE]]
    /\ last' = Op("applyBlur", e, FallbackResults, dom[e], dom'[e], FALSE)
    /\ UNCHANGED <<build, phase, settings, detector, decision, kernel,
                 store, tasks>>

(* processImage(img, blurEngine) for the picture the img shows now, started *)
(* by processExistingMedia or by the viewport observer.  marked: the        *)
(* caller adds the img to processedElements itself; otherwise processImage  *)
(* does, at its end, unless an exception took it to its catch block         *)
ProcessImageDom(e) ==
    /\ phase = "ready"
    /\ IF build = "part_002" THEN ~dom[e].processed
       ELSE ~(dom[e].processed /\ dom[e].record = "none")
    /\ \E frame \in DomFrames, marked \in BOOLEAN :
         LET results == analyzeImage(build, settings, detector, frame)
             threw == ~results.shouldBlur /\ RemoveBlurThrows(build)
             after == IF results.shouldBlur
                      THEN applyBlurTo(dom[e], settings, results)
                      ELSE dom[e]
         IN  /\ (build = "part_002" \/ dom[e].processed) => marked
             /\ dom' = [dom EXCEPT ![e] =
                          [after EXCEPT !.processed =
                              IF build = "part_002" \/ marked THEN TRUE
                              ELSE IF threw THEN @ ELSE TRUE]]
             /\ last' = Op(IF results.shouldBlur THEN "applyBlur" ELSE "safe",
                           e, results, dom[e], after, threw)
    /\ UNCHANGED <<build, phase, settings, detector, decision, kernel,
                 store, tasks>>

(* MutationObserver, src / srcset changed: processedElements.delete(node) *)
SrcChanged(e) ==
    /\ phase = "ready"
    /\ dom[e].processed
    /\ dom' = [dom EXCEPT ![e].processed = FALSE]
    /\ last' = [last EXCEPT !.op = "other", !.repeat = FALSE,
                            !.error = FALSE]
    /\ UNCHANGED <<build, phase, settings, detector, decision, kernel,
                 store, tasks>>

(* click on the badge: the overlay is shown or hidden; without an overlay   *)
(* the CSS filter is removed or set                                         *)
BadgeClick(e) ==
    /\ dom[e].badges > 0
    /\ dom' = [dom EXCEPT ![e] =
                 IF dom[e].record = "overlay"
                 THEN [@ EXCEPT !.overlayHidden = ~@]
                 ELSE [@ EXCEPT !.filter =
                          IF @ # <<>> THEN <<>>
                          ELSE <<settings.blurIntensity>>]]
    /\ last' = [last EXCEPT !.op = "other", !.repeat = FALSE,
                            !.error = FALSE]
    /\ UNCHANGED <<build, phase, settings, detector, decision, kernel,
                 store, tasks>>

DomNext ==
    \/ DomInitialize
    \/ DomSettingsUpdated
    \/ RemoveAllBlurs
    \/ \E e \in Elements : WatchedFallback(e)
    \/ \E e \in Elements : ProcessImageDom(e)
    \/ \E e \in Elements : SrcChanged(e)
    \/ \E e \in Elements : BadgeClick(e)

DomSpec == DomInit /\ [][DomNext]_vars

(* FairDomSpec: DomSpec with the steps the content script schedules itself *)
(* taken whenever they stay possible: initialize runs once the document is *)
(* ready, and the rescans (the 5 s interval, the viewport observer) keep   *)
(* starting processImage for the images they do not skip.  Messages, src   *)
(* changes and clicks come from outside and are not owed.                  *)
FairDomSpec ==
    /\ DomSpec
    /\ WF_vars(DomInitialize)
    /\ \A e \in Elements :
          WF_vars(ProcessImageDom(e)) /\ WF_vars(WatchedFallback(e))

(***************************************************************************)
(* PageSpec: DomSpec and the pages on which initialize returned early:     *)
(* phase "disabled" (settings.enabled was false at load) or "whitelisted"  *)
(* (checkWhitelist answered true).  On such a page the variable detector   *)
(* is still null, no observer and no interval exist; the listeners are     *)
(* installed all the same.                                                 *)
(***************************************************************************)
IdlePhases == {"disabled", "whitelisted"}

(* mutant: the catch block of processImage applies the fallback blur *)
processImageNoDetectorBlurs(b, el) ==
    [el EXCEPT !.processed = TRUE, !.record = "css",
               !.filter = <<DefaultBlurIntensity>>,
               !.wrapper = TRUE, !.badges = @ + 1]

(* processExistingMedia takes an image up on such a page (hvWatchMedia is  *)
(* undefined): processedElements.add(img), then processImage, where        *)
(* detector.analyzeImage(img) on the null detector raises TypeError; the   *)
(* catch block does nothing to the image                                  *)
processImageNoDetector(b, el) == [el EXCEPT !.processed = TRUE]

(* initialize returns at the enabled test or at the whitelist test *)
InitializeIdle ==
    /\ phase = "loading"
    /\ phase' \in IdlePhases
    /\ UNCHANGED <<build, settings, detector, decision, kernel, dom, last,
                 store, tasks>>

(* settingsUpdated / storage change on such a page: settings = the new    *)
(* value; removeAllBlurs() when enabled is false, else processExistingMedia *)
LateSettingsUpdated ==
    /\ phase \in IdlePhases
    /\ \E s \in DomSettings, enabled \in BOOLEAN :
         /\ settings' = s
         /\ dom' = IF ~enabled /\ HasRemoveAllBlurs(build)
                   THEN removeAllBlurs(dom) ELSE dom
         /\ last' = Op(IF enabled THEN "enable" ELSE "removeAllBlurs", 1,
                       last.results, dom[1], dom'[1],
                       ~enabled /\ ~HasRemoveAllBlurs(build))
    /\ UNCHANGED <<build, phase, detector, decision, kernel,
                 store, tasks>>

(* the scan an enabling message started reaches image e *)
LateProcessImage(e) ==
    /\ phase \in IdlePhases
    /\ last.op \in {"enable", "failed"}
    /\ IF build = "part_002" THEN ~dom[e].processed
       ELSE ~(dom[e].processed /\ dom[e].record = "none")
    /\ dom' = [dom EXCEPT ![e] = processImageNoDetector(build, @)]
    /\ last' = Op("failed", e, last.results, dom[e], dom'[e], TRUE)
    /\ UNCHANGED <<build, phase, settings, detector, decision, kernel,
                 store, tasks>>

PageNext ==
    \/ DomNext
    \/ InitializeIdle
    \/ LateSettingsUpdated
    \/ \E e \in Elements : LateProcessImage(e)

PageSpec == DomInit /\ [][PageNext]_vars

(* FairPageSpec: as FairDomSpec; a scan started by a message goes on to   *)
(* the images it does not skip                                             *)
FairPageSpec ==
    /\ PageSpec
    /\ WF_vars(DomInitialize \/ InitializeIdle)
    /\ \A e \in Elements :
          /\ WF_vars(ProcessImageDom(e)) /\ WF_vars(WatchedFallback(e))
          /\ WF_vars(LateProcessImage(e))

(***************************************************************************)
(* CycleSpec: the processImage cycles of one img element, each suspended   *)
(* at the detector call it awaits while other cycles, settings messages    *)
(* and rescans run.  decision is the bag of the cycles in flight.  A cycle *)
(* is [el, frame, pc, faces, seg, shouldBlur, isFallback, read]: pc is the *)
(* call it awaits ("load", "faces", "probe", "segment") or "done"; read is *)
(* the set of values the variable settings had when the cycle read it.     *)
(***************************************************************************)
CycleElement == 1

(* all flags on at intensity 25; or men and bodies only, at intensity 0 *)
CycleSettings ==
    {s \in SettingsSpace :
        /\ s.genderConfidenceThreshold = 70 /\ s.bodyCoverageThreshold = 5
        /\ \/ s \in DEFAULT_SETTINGS
           \/ /\ ~s.blurFaces /\ s.blurMen /\ ~s.blurWomen /\ s.blurBodies
              /\ s.blurIntensity = 0}

(* processImage(img, blurEngine) is entered *)
NewCycle(e, frame) ==
    [el |-> e, frame |-> frame, pc |-> "start", faces |-> <<>>,
     seg |-> NullSegmentation, shouldBlur |-> FALSE, isFallback |-> FALSE,
     read |-> {}]

(* analyzeImage returns *)
Done(c, shouldBlur, isFallback) ==
    [c EXCEPT !.pc = "done", !.shouldBlur = shouldBlur,
              !.isFallback = isFallback]

(* results.shouldBlur = faces.length > 0 || (bodySegmentation &&            *)
(* hasPersonInSegmentation(bodySegmentation)); return results               *)
Finish(b, c) ==
    Done(c, Len(c.faces) > 0
            \/ (~c.seg.isNull /\ hasPersonInSegmentation(b, c.seg)), FALSE)

(* if (runBodyPix) results.bodySegmentation = await this.segmentBody(...) *)
SegmentStage(b, det, c) ==
    IF det.bodyModel THEN [c EXCEPT !.pc = "segment"] ELSE Finish(b, c)

(* if (settings.blurBodies) { ... }: with flagged faces the body is         *)
(* segmented, without them the probe is awaited                             *)
BodyStage(b, s, det, c) ==
    IF ~s.blurBodies THEN Finish(b, c)
    ELSE IF Len(c.faces) > 0 THEN SegmentStage(b, det, c)
    ELSE [c EXCEPT !.pc = "probe"]

(* the face-api revisions: from the place where cycle c stands to its next *)
(* await of a detector call, or to the return of analyzeImage               *)
RunFaceApi(b, s, det, c) ==
    CASE c.pc = "start" ->
            IF ~det.isLoaded THEN Done(c, FALSE, TRUE)
            ELSE IF faceCall(s)
                 THEN [c EXCEPT !.pc = "faces", !.read = @ \cup {s}]
                 ELSE BodyStage(b, s, det, [c EXCEPT !.read = @ \cup {s}])
      [] c.pc = "faces" ->
            IF "faces" \in c.frame.throws THEN Done(c, FALSE, FALSE)
            ELSE BodyStage(b, s, det,
                    [c EXCEPT !.faces = flaggedFaces(LowConfidence(b), s,
                                            FrameDetections(c.frame)),
                              !.read = @ \cup {s}])
      [] c.pc = "probe" ->
            IF "probe" \in c.frame.throws THEN Done(c, FALSE, FALSE)
            ELSE IF Len(FrameDetections(c.frame)) = 0
                 THEN SegmentStage(b, det, c)
                 ELSE Finish(b, c)
      [] c.pc = "segment" ->
            Finish(b, [c EXCEPT !.seg = segmentBody(det, c.frame)])

(* part_002, after the faces: if (settings.blurBodies && this.bodyModel) *)
BodyStage002(s, det, c) ==
    IF s.blurBodies /\ det.bodyModel THEN [c EXCEPT !.pc = "segment"]
    ELSE Finish("part_002", c)

(* part_002: processImage awaits the load of a copy of the image, then     *)
(* analyzeImage runs                                                       *)
Run002(s, det, c) ==
    CASE c.pc = "start" -> [c EXCEPT !.pc = "load"]
      [] c.pc = "load" ->
            IF ~det.isLoaded THEN Done(c, TRUE, TRUE)
            ELSE IF s.blurFaces /\ det.faceModel
                 THEN [c EXCEPT !.pc = "faces", !.read = @ \cup {s}]
                 ELSE BodyStage002(s, det, [c EXCEPT !.read = @ \cup {s}])
      [] c.pc = "faces" ->
            BodyStage002(s, det,
                [c EXCEPT !.faces = faceRegions(detectFaces(det, c.frame)),
                          !.read = @ \cup {s}])
      [] c.pc = "segment" ->
            Finish("part_002", [c EXCEPT !.seg = segmentBody(det, c.frame)])

Run(b, s, det, c) ==
    IF b = "part_002" THEN Run002(s, det, c) ELSE RunFaceApi(b, s, det, c)

(* the detectionResults of a cycle whose analyzeImage has returned *)
ResultsOf(c) ==
    [faces |-> c.faces, bodySegmentation |-> c.seg,
     shouldBlur |-> c.shouldBlur, isFallback |-> c.isFallback]

(* the rest of processImage once analyzeImage has returned (no await of a   *)
(* detector call is left): applyBlur when results.shouldBlur, which reads   *)
(* settings again unless applyCSSBlur returns at its has() test; in the     *)
(* face-api revisions removeBlur throws otherwise, and                      *)
(* processedElements.add(img) is reached only without that exception        *)
Composite(b, s, el, c) ==
    [el |-> IF ~c.shouldBlur THEN el
            ELSE [applyBlurTo(el, s, ResultsOf(c)) EXCEPT
                    !.processed = IF b \in FaceApiBuilds THEN TRUE ELSE @],
     cycle |-> IF c.shouldBlur /\ (~c.isFallback \/ el.record = "none")
               THEN [c EXCEPT !.read = @ \cup {s}] ELSE c]

(* a cycle has moved: when its analyzeImage returned, the composite follows *)
(* in the same turn                                                         *)
Landed(c) ==
    IF c.pc # "done" THEN [el |-> dom[c.el], cycle |-> c]
    ELSE Composite(build, settings, dom[c.el], c)

CycleInit ==
    /\ build \in Builds
    /\ phase = "loading"
    /\ settings \in CycleSettings \cap DEFAULT_SETTINGS
    /\ detector = NoDetector
    /\ decision = EmptyBag
    /\ kernel = NoCall
    /\ dom = FreshPage
    /\ last = NoOp
    /\ store = InstalledStore
    /\ tasks = NoTasks

(* initialize, as in DomInitialize *)
CycleInitialize ==
    /\ phase = "loading"
    /\ \E d \in LoadOutcomes(build) : detector' = d
    /\ phase' = "ready"
    /\ dom' = IF build = "part_002"
              THEN [e \in Elements |->
                      applyBlurTo(dom[e], settings, FallbackResults)]
              ELSE dom
    /\ UNCHANGED <<build, settings, decision, kernel, last,
                 store, tasks>>

(* settingsUpdated with enabled: settings = message.settings *)
SettingsArrive ==
    /\ phase = "ready"
    /\ \E s \in CycleSettings : settings' = s
    /\ UNCHANGED <<build, phase, detector, decision, kernel, dom, last,
                 store, tasks>>

(* settingsUpdated with enabled = false: removeAllBlurs(), where defined *)
Disable ==
    /\ phase = "ready"
    /\ HasRemoveAllBlurs(build)
    /\ \E s \in CycleSettings : settings' = s
    /\ dom' = removeAllBlurs(dom)
    /\ UNCHANGED <<build, phase, detector, decision, kernel, last,
                 store, tasks>>

(* part_002, processExistingMedia: the fallback blur of an unprocessed img *)
RescanFallback ==
    /\ phase = "ready"
    /\ build = "part_002"
    /\ ~dom[CycleElement].processed
    /\ dom' = [dom EXCEPT ![CycleElement] =
                 [applyBlurTo(@, settings, FallbackResults)
                    EXCEPT !.processed = TRUE]]
    /\ UNCHANGED <<build, phase, settings, detector, decision, kernel, last,
                 store, tasks>>

(* MutationObserver, src changed: processedElements.delete(node) *)
SrcMutation ==
    /\ phase = "ready"
    /\ dom[CycleElement].processed
    /\ dom' = [dom EXCEPT ![CycleElement].processed = FALSE]
    /\ UNCHANGED <<build, phase, settings, detector, decision, kernel, last,
                 store, tasks>>

(* processImage is started for the element by processExistingMedia         *)
(* (periodic or after a mutation) or by the viewport observer, and runs to *)
(* its first await of a detector call                                      *)
Begin ==
    /\ phase = "ready"
    /\ BagCardinality(decision) < MaxCycles
    /\ IF build = "part_002" THEN ~dom[CycleElement].processed
       ELSE ~(dom[CycleElement].processed
              /\ dom[CycleElement].record = "none")
    /\ \E frame \in DomFrames, marked \in BOOLEAN :
         LET c == Run(build, settings, detector,
                      NewCycle(CycleElement, frame))
             to == Landed(c)
         IN  /\ (build = "part_002" \/ dom[CycleElement].processed) => marked
             /\ decision' = decision (+) SetToBag({to.cycle})
             /\ dom' = [dom EXCEPT ![CycleElement] =
                          [to.el EXCEPT !.processed = @ \/ marked]]
    /\ UNCHANGED <<build, phase, settings, detector, kernel, last,
                 store, tasks>>

(* the detector call a cycle awaits returns (or throws) *)
Resume ==
    /\ \E c \in BagToSet(decision) :
         /\ c.pc # "done"
         /\ LET to == Landed(Run(build, settings, detector, c))
            IN  /\ decision' = (decision (-) SetToBag({c}))
                                  (+) SetToBag({to.cycle})
                /\ dom' = [dom EXCEPT ![c.el] = to.el]
    /\ UNCHANGED <<build, phase, settings, detector, kernel, last,
                 store, tasks>>

(* processImage returns *)
CycleReturn ==
    /\ \E c \in BagToSet(decision) :
         /\ c.pc = "done"
         /\ decision' = decision (-) SetToBag({c})
    /\ UNCHANGED <<build, phase, settings, detector, kernel, dom, last,
                 store, tasks>>

CycleNext ==
    \/ CycleInitialize
    \/ SettingsArrive
    \/ Disable
    \/ RescanFallback
    \/ SrcMutation
    \/ Begin
    \/ Resume
    \/ CycleReturn

CycleSpec == CycleInit /\ [][CycleNext]_vars

(***************************************************************************)
(* WorkerSpec: the service worker, the options page and the popup.         *)
(* store is what the worker keeps: chrome.storage.sync 'settings',         *)
(* chrome.storage.local 'stats' and the badge text.  tasks.copy[s] is the  *)
(* variable settings of the page s (<<>> while it is null),                *)
(* tasks.handlers the handlers of the worker that are in progress, each    *)
(* suspended at an await, tasks.tab the messages sent to the tab.          *)
(* tasks.completed, tasks.by (the surface whose save last changed the      *)
(* stored value of a field) and tasks.calls (the updateStats calls that    *)
(* have completed, by type) are written for the properties only.           *)
(***************************************************************************)
MaxHandlers == 2

MaxCalls == 3

Surfaces == {"options", "popup"}

Fields == {"enabled", "blurFaces"}

(* hostname of the tab, and info.srcUrl of the image clicked on *)
TabDomain == "example.org"

SrcUrl == "a.png"

(* createContextMenus *)
CreatedMenuIds ==
    {"toggleHalalVision", "addToWhitelist", "blurThisImage", "unblurThisImage"}

(* the switch of the contextMenus.onClicked listener *)
Dispatch(menuItemId) ==
    CASE menuItemId = "toggleHalalVision" -> "toggleExtension"
      [] menuItemId = "addToWhitelist" -> "addCurrentSiteToWhitelist"
      [] menuItemId = "blurSpecificImage" -> "blurSpecificImage"
      [] menuItemId = "unblurSpecificImage" -> "unblurSpecificImage"
      [] OTHER -> "nothing"

updateBadge(enabled) == IF enabled THEN "ON" ELSE "OFF"

(* a handler in progress: the message or click it serves, where it is      *)
(* suspended, and the settings or stats object it holds                    *)
Handler(kind, pc, from, field, s, stats) ==
    [kind |-> kind, pc |-> pc, from |-> from, field |-> field,
     settings |-> s, stats |-> stats]

InFlight == BagToSet(tasks.handlers)

Start(h) == tasks.handlers (+) SetToBag({h})

End(h) == tasks.handlers (-) SetToBag({h})

Step(h, g) == End(h) (+) SetToBag({g})

(* chrome.tabs.sendMessage(tab.id, message); of settingsUpdated and        *)
(* siteWhitelisted only the action is kept                                 *)
TabMessage(action, imageUrl) == [action |-> action, imageUrl |-> imageUrl]

(* tasks.by after the stored settings become s, written by writer for the  *)
(* field own                                                               *)
ChangedBy(s, writer, own) ==
    [f \in Fields |->
        IF store.settings[f] = s[f] THEN tasks.by[f]
        ELSE IF f = own THEN writer ELSE "nobody"]

WorkerInit ==
    /\ build = "part_002"
    /\ phase = "ready"
    /\ settings \in DomSettings \cap DEFAULT_SETTINGS
    /\ detector = NoDetector
    /\ decision = <<>>
    /\ kernel = NoCall
    /\ dom = FreshPage
    /\ last = NoOp
    /\ store = InstalledStore
    /\ tasks = NoTasks

(* loadSettings of a page: the getSettings message and its answer *)
LoadSettings(s) ==
    /\ tasks.copy[s] # store.settings
    /\ tasks' = [tasks EXCEPT !.copy[s] = store.settings]
    /\ UNCHANGED <<build, phase, settings, detector, decision, kernel, dom,
                   last, store>>

(* a change handler of a page: settings[id] = checked; saveSettings()     *)
(* sends the whole object                                                  *)
SaveSettings(s, f) ==
    /\ tasks.copy[s] # <<>>
    /\ BagCardinality(tasks.handlers) < MaxHandlers
    /\ LET c == [tasks.copy[s] EXCEPT ![f] = ~@]
       IN  tasks' = [tasks EXCEPT
                        !.copy[s] = c,
                        !.handlers = Start(Handler("updateSettings", "sent",
                                                   s, f, c, NoStats))]
    /\ UNCHANGED <<build, phase, settings, detector, decision, kernel, dom,
                   last, store>>

(* handleMessage, updateSettings: await chrome.storage.sync.set(...) *)
UpdateSettingsSet(h) ==
    /\ h \in InFlight /\ h.kind = "updateSettings" /\ h.pc = "sent"
    /\ store' = [store EXCEPT !.settings = h.settings]
    /\ tasks' = [tasks EXCEPT
                    !.handlers = Step(h, [h EXCEPT !.pc = "written"]),
                    !.by = ChangedBy(h.settings, h.from, h.field)]
    /\ last' = [op |-> "updateSettings",
                undone |-> \E f \in Fields \ {h.field} :
                              /\ store.settings[f] # h.settings[f]
                              /\ tasks.by[f] \in Surfaces \ {h.from}]
    /\ UNCHANGED <<build, phase, settings, detector, decision, kernel, dom>>

(* ... updateBadge(message.settings.enabled); sendResponse *)
UpdateSettingsRespond(h) ==
    /\ h \in InFlight /\ h.kind = "updateSettings" /\ h.pc = "written"
    /\ store' = [store EXCEPT !.badge = updateBadge(h.settings.enabled)]
    /\ tasks' = [tasks EXCEPT !.handlers = End(h), !.completed = TRUE]
    /\ UNCHANGED <<build, phase, settings, detector, decision, kernel, dom,
                   last>>

(* the onClicked listener for a click on a created item *)
OnClicked(menuItemId) ==
    /\ BagCardinality(tasks.handlers) < MaxHandlers
    /\ LET call == Dispatch(menuItemId)
       IN  /\ tasks' =
                 CASE call = "toggleExtension" ->
                        [tasks EXCEPT !.handlers =
                            Start(Handler("toggle", "get", "menu", "enabled",
                                          InstalledSettings, NoStats))]
                   [] call = "addCurrentSiteToWhitelist" ->
                        [tasks EXCEPT !.handlers =
                            Start(Handler("whitelist", "get", "menu",
                                  "whitelist", InstalledSettings, NoStats))]
                   [] call \in {"blurSpecificImage", "unblurSpecificImage"} ->
                        [tasks EXCEPT !.tab = @ \cup {TabMessage(call, SrcUrl)}]
                   [] OTHER -> tasks
           /\ last' = [op |-> "click", id |-> menuItemId, call |-> call]
    /\ UNCHANGED <<build, phase, settings, detector, decision, kernel, dom,
                   store>>

(* toggleExtension: the get has answered; settings.enabled = !settings.enabled *)
ToggleGet(h) ==
    /\ h \in InFlight /\ h.kind = "toggle" /\ h.pc = "get"
    /\ tasks' = [tasks EXCEPT !.handlers =
                    Step(h, [h EXCEPT !.pc = "flipped",
                                      !.settings = [store.settings EXCEPT
                                                       !.enabled = ~@]])]
    /\ UNCHANGED <<build, phase, settings, detector, decision, kernel, dom,
                   last, store>>

(* ... await chrome.storage.sync.set({ settings }) *)
ToggleSet(h) ==
    /\ h \in InFlight /\ h.kind = "toggle" /\ h.pc = "flipped"
    /\ store' = [store EXCEPT !.settings = h.settings]
    /\ tasks' = [tasks EXCEPT
                    !.handlers = Step(h, [h EXCEPT !.pc = "written"]),
                    !.by = ChangedBy(h.settings, h.from, h.field)]
    /\ UNCHANGED <<build, phase, settings, detector, decision, kernel, dom,
                   last>>

(* ... the tabs have been told; updateBadge(settings.enabled) *)
ToggleFinish(h) ==
    /\ h \in InFlight /\ h.kind = "toggle" /\ h.pc = "written"
    /\ store' = [store EXCEPT !.badge = updateBadge(h.settings.enabled)]
    /\ tasks' = [tasks EXCEPT
                    !.handlers = End(h),
                    !.tab = @ \cup {TabMessage("settingsUpdated", "")},
                    !.completed = TRUE]
    /\ UNCHANGED <<build, phase, settings, detector, decision, kernel, dom,
                   last>>

(* addCurrentSiteToWhitelist: the get has answered *)
WhitelistGet(h) ==
    /\ h \in InFlight /\ h.kind = "whitelist" /\ h.pc = "get"
    /\ tasks' = [tasks EXCEPT !.handlers =
                    IF TabDomain \in store.settings.whitelist THEN End(h)
                    ELSE Step(h, [h EXCEPT
                                    !.pc = "pushed",
                                    !.settings = [store.settings EXCEPT
                                        !.whitelist = @ \cup {TabDomain}]])]
    /\ UNCHANGED <<build, phase, settings, detector, decision, kernel, dom,
                   last, store>>

(* ... await chrome.storage.sync.set({ settings }); the tab is told *)
WhitelistSet(h) ==
    /\ h \in InFlight /\ h.kind = "whitelist" /\ h.pc = "pushed"
    /\ store' = [store EXCEPT !.settings = h.settings]
    /\ tasks' = [tasks EXCEPT
                    !.handlers = End(h),
                    !.by = ChangedBy(h.settings, h.from, h.field),
                    !.tab = @ \cup {TabMessage("siteWhitelisted", "")}]
    /\ UNCHANGED <<build, phase, settings, detector, decision, kernel, dom,
                   last>>

(* the pages and the item 'Toggle HalalVision' *)
WorkerNext ==
    \/ \E s \in Surfaces : LoadSettings(s)
    \/ \E s \in Surfaces, f \in Fields : SaveSettings(s, f)
    \/ OnClicked("toggleHalalVision")
    \/ \E h \in InFlight : UpdateSettingsSet(h)
    \/ \E h \in InFlight : UpdateSettingsRespond(h)
    \/ \E h \in InFlight : ToggleGet(h)
    \/ \E h \in InFlight : ToggleSet(h)
    \/ \E h \in InFlight : ToggleFinish(h)

WorkerSpec == WorkerInit /\ [][WorkerNext]_vars

(* MenuSpec: the context menu alone *)
MenuNext ==
    \/ \E menuItemId \in CreatedMenuIds : OnClicked(menuItemId)
    \/ \E h \in InFlight : ToggleGet(h)
    \/ \E h \in InFlight : ToggleSet(h)
    \/ \E h \in InFlight : ToggleFinish(h)
    \/ \E h \in InFlight : WhitelistGet(h)
    \/ \E h \in InFlight : WhitelistSet(h)

MenuSpec == WorkerInit /\ [][MenuNext]_vars

(***************************************************************************)
(* StatsSpec: updateStats(type) of the content scripts, up to MaxCalls     *)
(* calls.  Each call is two messages: getStats, whose answer the callback  *)
(* increments, and updateStats, which carries the whole stats object back. *)
(***************************************************************************)
(* updateStats(type) in a content script: the getStats message is sent *)
UpdateStats(type) ==
    /\ tasks.calls.imagesProcessed + tasks.calls.videosProcessed
          + BagCardinality(tasks.handlers) < MaxCalls
    /\ tasks' = [tasks EXCEPT !.handlers =
                    Start(Handler("getStats", "sent", "content", type,
                                  InstalledSettings, NoStats))]
    /\ UNCHANGED <<build, phase, settings, detector, decision, kernel, dom,
                   last, store>>

(* handleMessage, getStats: the stored stats are read and answered; the    *)
(* callback increments its copy and sends the updateStats message          *)
GetStats(h) ==
    /\ h \in InFlight /\ h.kind = "getStats"
    /\ tasks' = [tasks EXCEPT !.handlers =
                    Step(h, [h EXCEPT !.kind = "updateStats",
                                      !.stats = [store.stats EXCEPT
                                                    ![h.field] = @ + 1]])]
    /\ UNCHANGED <<build, phase, settings, detector, decision, kernel, dom,
                   last, store>>

(* handleMessage, updateStats: chrome.storage.local.set({ stats }) *)
StoreStats(h) ==
    /\ h \in InFlight /\ h.kind = "updateStats"
    /\ store' = [store EXCEPT !.stats = h.stats]
    /\ tasks' = [tasks EXCEPT !.handlers = End(h),
                              !.calls[h.field] = @ + 1]
    /\ last' = [op |-> "updateStats", type |-> h.field]
    /\ UNCHANGED <<build, phase, settings, detector, decision, kernel, dom>>

StatsNext ==
    \/ \E type \in {"imagesProcessed", "videosProcessed"} : UpdateStats(type)
    \/ \E h \in InFlight : GetStats(h)
    \/ \E h \in InFlight : StoreStats(h)

StatsSpec == WorkerInit /\ [][StatsNext]_vars

(***************************************************************************)
(* VideoSpec: the video elements of an initialized page.  VideoProcessor   *)
(* is the same in the three revisions.  dom[e] is here a video: whether it *)
(* is paused, whether processedElements holds it, whether the              *)
(* processingVideos map of the observer's VideoProcessor holds it, the     *)
(* number of 'play' listeners processVideo has added to it, and its frame  *)
(* loops: process callbacks waiting in requestAnimationFrame (scheduled)   *)
(* and runs of process suspended in analyzeImage or applyVideoBlur         *)
(* (analysing), and whether applyVideoBlur has set its filter.             *)
(* video.ended is not modelled.                                            *)
(***************************************************************************)
MaxLoops == 3

MaxListeners == 2

FreshVideo(paused) ==
    [paused |-> paused, processed |-> FALSE, known |-> FALSE,
     listeners |-> 0, scheduled |-> 0, analysing |-> 0, blurred |-> FALSE]

Loops(v) == v.scheduled + v.analysing

(* VideoProcessor.processVideo(video), has = this.processingVideos.has(video) *)
processVideo(v, has) ==
    IF has THEN v
    ELSE [v EXCEPT !.listeners = @ + 1,
                   !.scheduled = IF v.paused THEN @ ELSE @ + 1]

VideoInit ==
    /\ build = "part_000"
    /\ phase = "ready"
    /\ settings = [enabled |-> TRUE, processVideos |-> TRUE]
    /\ detector = NoDetector
    /\ decision = <<>>
    /\ kernel = NoCall
    /\ dom \in [Elements -> {FreshVideo(paused) : paused \in BOOLEAN}]
    /\ last = NoOp
    /\ store = InstalledStore
    /\ tasks = NoTasks

(* processExistingMedia reaches the video: a VideoProcessor made for this  *)
(* scan, whose processingVideos map is empty                               *)
ScanVideo(e) ==
    /\ settings.processVideos
    /\ ~dom[e].processed
    /\ dom[e].listeners < MaxListeners /\ Loops(dom[e]) < MaxLoops
    /\ dom' = [dom EXCEPT ![e] =
                 [processVideo(@, FALSE) EXCEPT !.processed = TRUE]]
    /\ UNCHANGED <<build, phase, settings, detector, decision, kernel, last,
                   store, tasks>>

(* the IntersectionObserver of startDOMObserver: the video enters the      *)
(* viewport; its VideoProcessor lives as long as the page                  *)
VideoIntersects(e) ==
    /\ ~dom[e].processed
    /\ dom[e].listeners < MaxListeners /\ Loops(dom[e]) < MaxLoops
    /\ dom' = [dom EXCEPT ![e] =
                 [processVideo(@, @.known) EXCEPT !.processed = TRUE,
                                                  !.known = TRUE]]
    /\ UNCHANGED <<build, phase, settings, detector, decision, kernel, last,
                   store, tasks>>

(* MutationObserver, src changed: processedElements.delete(node) *)
VideoSrcChanged(e) ==
    /\ dom[e].processed
    /\ dom' = [dom EXCEPT ![e].processed = FALSE]
    /\ UNCHANGED <<build, phase, settings, detector, decision, kernel, last,
                   store, tasks>>

(* the video starts playing: every 'play' listener calls                   *)
(* requestAnimationFrame(process)                                          *)
Play(e) ==
    /\ dom[e].paused
    /\ Loops(dom[e]) + dom[e].listeners <= MaxLoops
    /\ dom' = [dom EXCEPT ![e].paused = FALSE,
                          ![e].scheduled = @ + dom[e].listeners]
    /\ UNCHANGED <<build, phase, settings, detector, decision, kernel, last,
                   store, tasks>>

Pause(e) ==
    /\ ~dom[e].paused
    /\ dom' = [dom EXCEPT ![e].paused = TRUE]
    /\ UNCHANGED <<build, phase, settings, detector, decision, kernel, last,
                   store, tasks>>

(* a scheduled process callback runs up to its await, or returns at once   *)
Frame(e) ==
    /\ dom[e].scheduled > 0
    /\ dom' = [dom EXCEPT
                 ![e].scheduled = @ - 1,
                 ![e].analysing = IF dom[e].paused \/ ~settings.enabled
                                  THEN @ ELSE @ + 1]
    /\ UNCHANGED <<build, phase, settings, detector, decision, kernel, last,
                   store, tasks>>

(* the analysis of a frame has answered or thrown; applyVideoBlur when it  *)
(* says shouldBlur; requestAnimationFrame(process)                         *)
FrameDone(e) ==
    /\ dom[e].analysing > 0
    /\ \E shouldBlur \in BOOLEAN :
         dom' = [dom EXCEPT ![e].analysing = @ - 1,
                            ![e].scheduled = @ + 1,
                            ![e].blurred = @ \/ shouldBlur]
    /\ UNCHANGED <<build, phase, settings, detector, decision, kernel, last,
                   store, tasks>>

(* settingsUpdated message *)
VideoSettingsUpdated ==
    /\ settings' \in [enabled : BOOLEAN, processVideos : BOOLEAN]
    /\ UNCHANGED <<build, phase, detector, decision, kernel, dom, last,
                   store, tasks>>

VideoNext ==
    \/ \E e \in Elements : ScanVideo(e)
    \/ \E e \in Elements : VideoIntersects(e)
    \/ \E e \in Elements : VideoSrcChanged(e)
    \/ \E e \in Elements : Play(e)
    \/ \E e \in Elements : Pause(e)
    \/ \E e \in Elements : Frame(e)
    \/ \E e \in Elements : FrameDone(e)
    \/ VideoSettingsUpdated

VideoSpec == VideoInit /\ [][VideoNext]_vars

(***************************************************************************)
(* Properties of one decision.  D is the decision of the cycle in          *)
(* progress: its frame, the detector calls made, results, and what         *)
(* applyBlur did with them.                                                *)
(***************************************************************************)
Decided == decision # <<>>

D == decision[1]

AllFlagsOff ==
    ~settings.blurFaces /\ ~settings.blurMen /\ ~settings.blurWomen
    /\ ~settings.blurBodies

(* a detector call that was made in this decision and threw *)
ThrewCalls == D.calls \cap D.frame.throws

(* a face detection call completed and returned at least one face *)
FacesDetected ==
    /\ Len(D.frame.kinds) > 0
    /\ \E c \in {"faces", "probe"} : c \in D.calls /\ c \notin D.frame.throws

(* segmentPerson can deliver the frame's mask *)
MaskAvailable == detector.bodyModel /\ "segment" \notin D.frame.throws

PositivePixels(seg) == seg.data[1].n

(* positive-pixel fraction of seg exceeds t per mille *)
Exceeds(seg, t) == PositivePixels(seg) * 1000 > MaskLen * t

(* blurBodyRegions was given the mask, the mask has positive pixels, and
   they end up blurred (here through the CSS blur of the whole element that
   follows the exception raised in stackBlur) *)
MaskPixelsBlurred ==
    /\ ~D.composite.bodyMask.isNull
    /\ PositivePixels(D.composite.bodyMask) > 0
    /\ D.composite.output = "css"
    /\ settings.blurIntensity >= 1

InRedactedList(i) ==
    \E j \in 1..Len(D.results.faces) :
        D.results.faces[j] = FaceRegion(BoxAt(i))

(* C1: a decision made while the detector is not loaded yields
   isFallback = true and shouldRedact = true, whatever the flags and the
   image. *)
C1_UnavailableIsFallback ==
    (Decided /\ ~detector.isLoaded)
        => (D.results.isFallback /\ D.results.shouldBlur)

(* C2: when an external detector call (face detection, the face-presence
   probe, segmentation) throws during a decision, the result is the fallback
   plan: isFallback = true and shouldRedact = true. *)
C2_ThrowIsFallback ==
    (Decided /\ ThrewCalls # {})
        => (D.results.isFallback /\ D.results.shouldBlur)

(* C3: with the detector loaded and blurFaces, blurMen, blurWomen and
   blurBodies all false, the decision yields shouldRedact = false and
   isFallback = false for every frame. *)
C3_AllFlagsOffNoRedaction ==
    (Decided /\ detector.isLoaded /\ AllFlagsOff)
        => (~D.results.shouldBlur /\ ~D.results.isFallback
            /\ D.composite = NoComposite)

C3_Witness ==
    /\ Decided /\ detector.isLoaded /\ detector.bodyModel /\ AllFlagsOff
    /\ Len(D.frame.kinds) = MaxFaces
    /\ D.frame.throws = {}
    /\ PositivePixels(D.frame.segmentation) = MaskLen \div 2
    /\ ~D.results.shouldBlur

(* C4: in the face-api revisions a detected face is in the redacted-face
   list if and only if blurFaces, or blurMen and its effective gender is
   male, or blurWomen and its effective gender is female; a face of unknown
   effective gender is flagged only by blurFaces.  Without a completed face
   detection the list is empty. *)
C4_FlaggedIffPolicy ==
    (Decided /\ build \in FaceApiBuilds)
        => /\ \A i \in 1..Len(D.effective) :
                InRedactedList(i) <=>
                    \/ settings.blurFaces
                    \/ settings.blurMen /\ D.effective[i] = "male"
                    \/ settings.blurWomen /\ D.effective[i] = "female"
           /\ Len(D.results.faces) <= Len(D.effective)
           /\ \A i \in 1..Len(D.effective) :
                (D.effective[i] = "unknown" /\ ~settings.blurFaces)
                    => ~InRedactedList(i)

C4_Witness ==
    /\ Decided /\ build \in FaceApiBuilds
    /\ ~settings.blurFaces /\ settings.blurMen /\ ~settings.blurWomen
    /\ Len(D.effective) = 2
    /\ D.frame.kinds[1].gender = "male" /\ D.effective[1] = "male"
    /\ D.frame.kinds[2].gender = "male" /\ D.effective[2] = "unknown"
    /\ InRedactedList(1) /\ ~InRedactedList(2)

(* C5 as claimed: a face's effective gender is 'unknown' exactly when its
   confidence is below the genderConfidenceThreshold of the settings
   supplied for the decision, and otherwise equals the detector's label. *)
C5_SettingsThreshold ==
    Decided =>
        \A i \in 1..Len(D.effective) :
            D.effective[i] =
                IF D.frame.kinds[i].genderProbability
                        < settings.genderConfidenceThreshold
                THEN "unknown" ELSE D.frame.kinds[i].gender

(* C5 amended: a face's effective gender is 'unknown' exactly when its
   confidence is below the cut-off fixed in the code (0.7 in part_000, 0.6
   in part_001), whatever the settings hold, and otherwise equals the
   detector's label; so with blurFaces off a face is flagged exactly when
   its confidence reaches that cut-off and the flag of its label is on. *)
C5_FixedCutoff ==
    Decided =>
        \A i \in 1..Len(D.effective) :
            LET k == D.frame.kinds[i]
                cut == IF build = "part_000" THEN 70 ELSE 60
            IN  /\ D.effective[i] =
                     IF k.genderProbability < cut THEN "unknown" ELSE k.gender
                /\ ~settings.blurFaces =>
                     (InRedactedList(i) <=>
                        /\ k.genderProbability >= cut
                        /\ \/ settings.blurMen /\ k.gender = "male"
                           \/ settings.blurWomen /\ k.gender = "female")

C5_Witness ==
    /\ Decided /\ build = "part_000"
    /\ settings.genderConfidenceThreshold = 80
    /\ ~settings.blurFaces /\ settings.blurMen
    /\ Len(D.effective) >= 1
    /\ D.frame.kinds[1] = [gender |-> "male", genderProbability |-> 75]
    /\ D.effective[1] = "male"
    /\ InRedactedList(1)

(* C6: with blurBodies true, if at least one face was detected and no face
   was flagged, the body mask is not redacted and shouldRedact is false,
   whatever the mask's coverage. *)
C6_SafeFacesKeepBody ==
    (Decided /\ detector.isLoaded /\ settings.blurBodies
        /\ FacesDetected /\ Len(D.results.faces) = 0)
        => /\ D.results.bodySegmentation.isNull
           /\ ~D.results.shouldBlur
           /\ D.composite = NoComposite

C6_Witness ==
    /\ Decided /\ detector.isLoaded /\ detector.bodyModel
    /\ settings.blurBodies /\ settings.blurWomen
    /\ ~settings.blurFaces /\ ~settings.blurMen
    /\ D.frame.throws = {}
    /\ Len(D.frame.kinds) = 1
    /\ D.frame.kinds[1] = [gender |-> "male", genderProbability |-> 75]
    /\ PositivePixels(D.frame.segmentation) = MaskLen \div 2
    /\ FacesDetected
    /\ ~D.results.shouldBlur

(* C7: with blurBodies true and zero faces detected in the frame, the body
   mask is selected for redaction, and shouldRedact is true whenever the
   mask's positive-pixel fraction exceeds the coverage threshold of the
   revision (0.5 %, 1 % in part_002); then the mask is what the compositor
   is given to blur. *)
C7_NoFacesBodySelected ==
    (Decided /\ detector.isLoaded /\ settings.blurBodies
        /\ Len(D.frame.kinds) = 0
        /\ D.frame.throws \cap {"faces", "probe"} = {}
        /\ MaskAvailable)
        => /\ D.results.bodySegmentation = D.frame.segmentation
           /\ Exceeds(D.frame.segmentation, CoveragePerMille(build))
                => /\ D.results.shouldBlur
                   /\ D.composite.bodyMask = D.frame.segmentation

C7_Witness ==
    /\ Decided /\ build = "part_000" /\ detector.isLoaded
    /\ settings.blurBodies /\ settings.bodyCoverageThreshold = 10
    /\ Len(D.frame.kinds) = 0
    /\ D.frame.throws = {}
    /\ PositivePixels(D.frame.segmentation) = MaskLen \div 50
    /\ D.results.bodySegmentation = D.frame.segmentation
    /\ D.results.shouldBlur

(* C8: with blurBodies true, if at least one face was flagged for redaction
   then the body mask is selected for redaction in the same plan. *)
C8_FlaggedFaceSelectsBody ==
    (Decided /\ settings.blurBodies /\ Len(D.results.faces) > 0
        /\ MaskAvailable)
        => /\ D.results.bodySegmentation = D.frame.segmentation
           /\ ~D.results.bodySegmentation.isNull

C8_Witness ==
    /\ Decided /\ build = "part_000"
    /\ settings.blurBodies /\ settings.blurMen /\ ~settings.blurFaces
    /\ Len(D.frame.kinds) = 2
    /\ Len(D.results.faces) = 1
    /\ D.results.bodySegmentation = D.frame.segmentation
    /\ PositivePixels(D.frame.segmentation) = 0

(* C9: a segmentation mask whose fraction of positive pixels does not exceed
   the bodyCoverageThreshold of the supplied settings is treated as absent:
   it never makes shouldRedact true and the compositor never blurs its
   pixels, also in plans that contain flagged faces.  (Stated for the masks
   that stay below the threshold built into the revision as well.) *)
C9_SmallMaskIgnored ==
    (Decided /\ ~D.results.bodySegmentation.isNull
        /\ ~Exceeds(D.results.bodySegmentation, settings.bodyCoverageThreshold)
        /\ ~Exceeds(D.results.bodySegmentation, CoveragePerMille(build)))
        => /\ Len(D.results.faces) = 0 => ~D.results.shouldBlur
           /\ ~MaskPixelsBlurred

(* C10: for every non-fallback decision, shouldRedact is true if and only if
   the redacted-face list is non-empty or a body mask was selected and its
   coverage is above the threshold of the revision. *)
C10_ShouldRedactIff ==
    (Decided /\ ~D.results.isFallback)
        => (D.results.shouldBlur <=>
              \/ Len(D.results.faces) > 0
              \/ /\ ~D.results.bodySegmentation.isNull
                 /\ Exceeds(D.results.bodySegmentation,
                            CoveragePerMille(build)))

C10_Witness ==
    /\ Decided /\ ~D.results.isFallback
    /\ Len(D.results.faces) = 0
    /\ ~D.results.bodySegmentation.isNull
    /\ PositivePixels(D.results.bodySegmentation) = 3
    /\ D.results.shouldBlur

(* the j-th flagged face ends up blurred: blurImage handed it to blurRegion,
   or the whole element got the CSS blur *)
FaceBlurred(j) ==
    \/ D.composite.output = "css"
    \/ \E k \in 1..Len(D.composite.regions) :
          D.composite.regions[k] = D.results.faces[j]

(* C18: for a non-fallback plan, every face rectangle in the plan is blurred
   in the composited output, whichever policy flag (blurFaces, blurMen or
   blurWomen) caused the face to be flagged.  (Stated for a blurIntensity of
   at least 1, where blurring changes pixels.) *)
C18_EveryFaceBlurred ==
    (Decided /\ D.results.shouldBlur /\ ~D.results.isFallback
        /\ settings.blurIntensity >= 1)
        => \A j \in 1..Len(D.results.faces) : FaceBlurred(j)

(***************************************************************************)
(* Properties of the latest operation on the page (DomSpec).  L is the     *)
(* element it was about, as it is now.                                     *)
(***************************************************************************)
L == dom[last.el]

(* nothing of a blur is attached to the element *)
NoBlurOutput(el) ==
    /\ el.filter = <<>> /\ ~el.wrapper
    /\ el.overlays = <<>> /\ el.badges = 0

(* the blur the element carries is on display (not toggled off at the
   badge) *)
BlurShown(el) ==
    /\ ~el.overlayHidden
    /\ el.record = "css" => el.filter # <<>>

(* C14: when the decision for an element yields shouldRedact = false,
   afterwards the element has no redaction record and no blur output
   (wrapper, overlay, badge, CSS filter), even if an earlier cycle or the
   precautionary fallback blur had redacted it. *)
C14_SafeDecisionClears ==
    last.op = "safe" => (L.record = "none" /\ NoBlurOutput(L))

(* C15: applyBlur called twice in succession with the same results for the
   same element leaves exactly one redaction record, one wrapper, one badge
   and at most one overlay, and the second call changes nothing of what the
   first one left. *)
C15_RepeatIsIdempotent ==
    (last.op = "applyBlur" /\ last.repeat)
        => /\ ~last.changed
           /\ L.record # "none" /\ L.wrapper /\ L.badges = 1
           /\ Len(L.overlays) = IF L.record = "overlay" THEN 1 ELSE 0

C15_Witness ==
    /\ last.op = "applyBlur" /\ last.repeat /\ last.had
    /\ ~last.results.isFallback /\ Len(last.results.faces) = 1
    /\ L.record = "overlay" /\ Len(L.overlays) = 1 /\ L.badges = 1

(* C16: when applyBlur is called for an element that already has a
   redaction record (its blur on display), the element's record and blur
   output afterwards are those of the later call's results and settings:
   what the call gives an element without a record.  (Stated for later
   calls made with a blurIntensity of at least 1.) *)
C16_LaterPlanReplaces ==
    (last.op = "applyBlur" /\ last.had /\ BlurShown(L)
        /\ settings.blurIntensity >= 1)
        => Look(L) = Look(applyBlurTo(FreshElement, settings, last.results))

(* C17: in the revisions that define removeAllBlurs: after removeAllBlurs
   following an applyBlur the element has no redaction record, and a
   following decision with shouldRedact = false changes nothing: no record,
   no blur output, no exception. *)
C17_ClearThenSafeIsNoop ==
    HasRemoveAllBlurs(build)
        => /\ last.chain = 2 => L.record = "none"
           /\ last.chain = 3 =>
                /\ ~last.changed /\ ~last.error
                /\ L.record = "none" /\ NoBlurOutput(L)

(***************************************************************************)
(* Properties of one call of a pixel function (KernelSpec).                *)
(***************************************************************************)
Rgb(pixel) == <<pixel[1], pixel[2], pixel[3]>>

Uniform(pixels) == \A k \in 1..Len(pixels) : pixels[k] = pixels[1]

(* the face rectangle of the call lies inside the canvas *)
BoxInsideCanvas ==
    /\ kernel.topLeft[1] >= 0 /\ kernel.topLeft[2] >= 0
    /\ kernel.bottomRight[1] <= kernel.width
    /\ kernel.bottomRight[2] <= kernel.height

(* C11: the blur kernel raises no error: for every buffer with width >= 1,
   height >= 1 and every integer radius >= 0, stackBlur returns normally. *)
C11_KernelNeverThrows ==
    (kernel.fn = "stackBlur" /\ kernel.width >= 1 /\ kernel.height >= 1
        /\ kernel.radius >= 0 /\ kernel.radius % 10 = 0)
        => ~kernel.threw

(* C12: for every radius below 1 (0, negative, and fractions below 1) the
   kernel returns normally and leaves every byte of the buffer unchanged;
   blurRegion and blurBodyRegions called with such a radius leave the canvas
   as it was. *)
C12_BelowOneUnchanged ==
    (kernel.fn # "none" /\ kernel.radius < 10)
        => (~kernel.threw /\ kernel.out = kernel.pixels)

C12_Witness ==
    /\ kernel.fn = "stackBlur" /\ kernel.radius = 9
    /\ kernel.width = 2 /\ kernel.height = 2
    /\ ~Uniform(kernel.pixels)
    /\ ~kernel.threw /\ kernel.out = kernel.pixels

(* C13: stackBlur with a radius >= 1 on a buffer in which every pixel has
   the same colour returns a buffer in which every pixel still has that
   colour, for every width and height >= 1. *)
C13_UniformStaysUniform ==
    (kernel.fn = "stackBlur" /\ kernel.radius >= 10 /\ Uniform(kernel.pixels))
        => /\ ~kernel.threw
           /\ Len(kernel.out) = Len(kernel.pixels)
           /\ \A k \in 1..Len(kernel.out) : kernel.out[k] = kernel.pixels[1]

(* C19: for a face rectangle inside the canvas, the padded region that
   blurRegion reads, blurs and writes back lies inside
   [0, width) x [0, height): left and top are >= 0, right and bottom do not
   exceed the canvas. *)
C19_PaddedRegionInside ==
    (kernel.fn = "blurRegion" /\ BoxInsideCanvas)
        => /\ kernel.read.x >= 0 /\ kernel.read.y >= 0
           /\ kernel.read.x + kernel.read.width <= kernel.width
           /\ kernel.read.y + kernel.read.height <= kernel.height

(* C20: blurBodyRegions completes, and afterwards every pixel whose mask
   value is not positive has its original r, g, b and every pixel whose
   mask value is positive has the r, g, b of the blurred copy at the same
   position. *)
C20_MaskLimited ==
    kernel.fn = "blurBodyRegions"
        => LET mask == createMaskFromSegmentation(kernel.segmentation,
                                                  kernel.width, kernel.height)
               copy == stackBlur(kernel.pixels, kernel.width, kernel.height,
                                 kernel.radius).pixels
           IN  /\ ~kernel.threw
               /\ \A k \in 1..Len(kernel.pixels) :
                    Rgb(kernel.out[k]) =
                        IF mask[k] > 0 THEN Rgb(copy[k])
                        ELSE Rgb(kernel.pixels[k])

(***************************************************************************)
(* The passes of the blur kernel                                           *)
(***************************************************************************)
(* C22: the blur kernel never changes the alpha byte of any pixel: for
   every input buffer and radius, byte 4*i+3 is the same before and after,
   in a call of stackBlur and in the two passes as they are written. *)
C22_AlphaUntouched ==
    kernel.fn \in {"stackBlur", "passes"}
        => /\ Len(kernel.out) = Len(kernel.pixels)
           /\ \A k \in 1..Len(kernel.pixels) :
                 kernel.out[k][4] = kernel.pixels[k][4]

C22_Witness ==
    /\ kernel.fn = "passes" /\ kernel.radius = 10
    /\ kernel.width = 2 /\ kernel.height = 2
    /\ \E j, k \in 1..4 : kernel.pixels[j][4] # kernel.pixels[k][4]
    /\ \E k \in 1..4 : Rgb(kernel.out[k]) # Rgb(kernel.pixels[k])
    /\ \A k \in 1..4 : kernel.out[k][4] = kernel.pixels[k][4]

(* the reference value of C23: the sum of the 2r+1 entries of the window
   around position at, entries beyond an edge replaced by the nearest edge
   entry, divided by 2r+1 and rounded to the nearest integer *)
RECURSIVE WindowSum(_, _, _, _)
WindowSum(line, at, radius, i) ==
    IF i > radius THEN 0
    ELSE line[Min(Len(line), Max(1, at + i))]
         + WindowSum(line, at, radius, i + 1)

BoxAverage(line, at, radius) ==
    (2 * WindowSum(line, at, radius, -radius) + (2 * radius + 1))
        \div (2 * (2 * radius + 1))

(* rows first, then columns of the row-blurred values *)
Reference(ch, width, height, radius) ==
    LET row == [y \in 1..height |->
                  [x \in 1..width |-> ch[(y - 1) * width + x]]]
        rowBlurred == [k \in 1..(width * height) |->
                         BoxAverage(row[((k - 1) \div width) + 1],
                                    ((k - 1) % width) + 1, radius)]
        col == [x \in 1..width |->
                  [y \in 1..height |-> rowBlurred[(y - 1) * width + x]]]
    IN  [k \in 1..(width * height) |->
            BoxAverage(col[((k - 1) % width) + 1],
                       ((k - 1) \div width) + 1, radius)]

(* C23: for every width, height >= 1 and radius >= 1 the value the kernel
   produces for each pixel and colour channel equals the reference value:
   the edge-replicated window average over the row, then over the column of
   the row-blurred values. *)
C23_PassesMatchReference ==
    (kernel.fn \in {"stackBlur", "passes"} /\ kernel.radius >= 10)
        => /\ ~kernel.threw
           /\ Len(kernel.out) = Len(kernel.pixels)
           /\ \A c \in 1..3 :
                 Channel(kernel.out, c)
                    = Reference(Channel(kernel.pixels, c), kernel.width,
                                kernel.height, MathFloor(kernel.radius))

(* C24: every index the passes read, in the initial window and in the
   slide, of the horizontal and of the vertical pass, lies inside
   [0, width * height), also for a radius >= width or >= height. *)
C24_ReadsInRange ==
    kernel.fn = "passes"
        => (kernel.reads.horizontal \cup kernel.reads.verticalInit
              \cup kernel.reads.verticalSlide)
                \subseteq 0..(kernel.width * kernel.height - 1)

(***************************************************************************)
(* Fallback plans and the redaction table                                  *)
(***************************************************************************)
(* C21: compositing a plan with isFallback = true on an element that has no
   redaction record blurs the whole element at the configured blurIntensity
   (the CSS filter, no region overlay) and stores a record for it that marks
   a whole-element redaction (no overlay canvas). *)
C21_FallbackBlursWhole ==
    (last.op = "applyBlur" /\ last.results.isFallback /\ ~last.had)
        => /\ L.filter = <<settings.blurIntensity>>
           /\ L.record = "css"
           /\ L.overlays = <<>>
           /\ L.wrapper /\ L.badges = 1

C21_Witness ==
    /\ last.op = "applyBlur" /\ last.results.isFallback /\ ~last.had
    /\ settings.blurIntensity >= 1
    /\ L.filter = <<settings.blurIntensity>> /\ L.record = "css"

(* C25: in every decision result, isFallback = true implies that the face
   list is empty and the body mask is null. *)
C25_FallbackHasNoRegions ==
    (Decided /\ D.results.isFallback)
        => /\ Len(D.results.faces) = 0
           /\ D.results.bodySegmentation.isNull

(* a fallback decision for a picture with a face, the face model loaded and
   face blurring switched on *)
C25_Witness ==
    /\ Decided /\ D.results.isFallback
    /\ Len(D.frame.kinds) > 0 /\ detector.faceModel /\ settings.blurFaces
    /\ Len(D.results.faces) = 0 /\ D.results.bodySegmentation.isNull

(* C26: between compositor operations, an element has an entry in
   blurredElements if and only if blur output (an overlay in its wrapper or
   the CSS blur filter) is attached to it, after any sequence of composite,
   fallback blur, badge toggles and removeAllBlurs. *)
C26_RecordIffOutput ==
    \A e \in Elements :
        (dom[e].record # "none")
            <=> (dom[e].overlays # <<>> \/ dom[e].filter # <<>>)

(***************************************************************************)
(* Concurrent cycles (CycleSpec)                                           *)
(***************************************************************************)
Cycles == BagToSet(decision)

(* C27: under every interleaving of the cycles of one element with the
   rescans, the mutation observer, the precautionary fallback blur and
   removeAllBlurs, the element has at most one overlay and at most one
   badge, and these sit in its wrapper.  (blurredElements is a Map and holds
   one record per element; applyBlurredOverlay creates a wrapper only when
   the parent of the img is not one.) *)
C27_AtMostOnce ==
    \A e \in Elements :
        /\ Len(dom[e].overlays) <= 1
        /\ dom[e].badges <= 1
        /\ (dom[e].overlays # <<>> \/ dom[e].badges > 0) => dom[e].wrapper

(* two cycles of the element were in flight together, both decided to blur
   and both have composited; the element carries one overlay and one badge *)
C27_Witness ==
    /\ BagCardinality(decision) = 2
    /\ \A c \in Cycles : c.pc = "done" /\ c.shouldBlur /\ c.el = CycleElement
    /\ Len(dom[CycleElement].overlays) = 1
    /\ dom[CycleElement].badges = 1

(* C28: one decision-and-composite cycle reads one value of the settings
   throughout: every flag and the blur intensity it reads come from the
   same settings value, also when a settings update arrives while the cycle
   awaits a detector call. *)
C28_OneSnapshot ==
    \A c \in Cycles : Cardinality(c.read) <= 1

(***************************************************************************)
(* Disabling and model failure                                             *)
(***************************************************************************)
(* C30: after the content script has handled a settings change with
   enabled = false while an element was redacted, blurredElements is empty,
   no wrapper, overlay or badge remains in the page, and the handler got to
   its sendResponse({success: true}) (no exception ended it before). *)
C30_DisableClears ==
    (last.op = "removeAllBlurs" /\ last.had)
        => /\ ~last.error
           /\ \A e \in Elements :
                 /\ dom[e].record = "none" /\ ~dom[e].wrapper
                 /\ dom[e].overlays = <<>> /\ dom[e].badges = 0

(* every image carries the whole-image CSS blur and a record for it *)
AllFallbackBlurred ==
    \A e \in Elements : dom[e].record = "css" /\ dom[e].filter # <<>>

(* C29: when the models cannot be loaded on an enabled page that is not
   whitelisted, every valid image eventually has the whole-image fallback
   blur and a redaction record: the page gets past initialization into a
   state where, if the models are not loaded, all images are so blurred. *)
C29_UnloadedEventuallyBlurred ==
    (phase = "loading")
        ~> (phase = "ready" /\ (~detector.isLoaded => AllFallbackBlurred))

(***************************************************************************)
(* Disabling and enabling again                                            *)
(***************************************************************************)
(* a scan has taken the image up: processImage ran on it and analysed it *)
TakenUp(e) == last.el = e /\ last.op \in {"applyBlur", "safe"}

(* C31: after the extension was disabled on an initialized page (in a
   revision that has removeAllBlurs) and a later settings message has
   enabled it again (chain 2, then a settings update), every image that was
   redacted before the disable is eventually taken up by a scan again, so
   that it is redacted again if its content still warrants it, unless the
   extension is disabled once more first. *)
C31_RedactedAgain ==
    \A e \in Elements :
        (/\ HasRemoveAllBlurs(build)
         /\ last.chain = 2 /\ last.op = "other" /\ last.el = e /\ last.had)
            ~> (TakenUp(e) \/ last.op = "removeAllBlurs")

(* C32: if the page was loaded while the extension was disabled and a
   settingsUpdated message later sets enabled = true, every image on the
   page is eventually analysed (and redacted when the analysis says so). *)
C32_LateEnableAnalyses ==
    \A e \in Elements :
        (phase = "disabled" /\ last.op = "enable") ~> TakenUp(e)

(* C33: on a page whose domain was whitelisted at load time no element is
   ever redacted, whatever settingsUpdated messages or storage changes
   arrive afterwards. *)
C33_WhitelistedNeverRedacted ==
    phase = "whitelisted"
        => \A e \in Elements :
              dom[e].record = "none" /\ NoBlurOutput(dom[e])

(* an enabling message arrived on the whitelisted page and the scan it
   started went through the image *)
C33_Witness ==
    /\ phase = "whitelisted"
    /\ last.op = "failed" /\ last.error /\ L.processed
    /\ L.record = "none" /\ NoBlurOutput(L)
(* processImage has just sent updateStats('image') for last.el: it does so
   after every applyBlur that the analysis asked for *)
Counted == last.op = "applyBlur" /\ last.results.shouldBlur

(* C35: a redacted image is counted in imagesProcessed at most once while
   its source is unchanged: no scan counts an image again that the scan
   before it counted, with no src mutation and no message in between. *)
C35_CountedOnce == ~(Counted /\ last.repeat /\ last.had)
(* C34: the stored imagesProcessed counter loses no increment: when every
   updateStats('image') call that was started has completed, the counter
   has grown by the number of those calls. *)
C34_NoLostIncrement ==
    tasks.handlers = EmptyBag
        => store.stats.imagesProcessed = tasks.calls.imagesProcessed

(* C36: a settings change saved from one surface is never undone by a
   later save of a different field from another surface. *)
C36_SaveKeepsOtherFields == last.op = "updateSettings" => ~last.undone

(* C37: whenever no handler of the service worker is in progress and at
   least one updateSettings or toggle has completed, the badge text is
   'ON' exactly when the stored settings have enabled = true. *)
C37_BadgeMatchesStored ==
    (tasks.handlers = EmptyBag /\ tasks.completed)
        => (store.badge = "ON" <=> store.settings.enabled)

(* C38: a click on any created context-menu item is dispatched: the item
   'Blur Gambar Ini' sends blurSpecificImage and 'Unblur Gambar Ini' sends
   unblurSpecificImage, with the URL of the image, to the tab; the other
   two items start toggleExtension and addCurrentSiteToWhitelist. *)
C38_ClickDispatched ==
    last.op = "click"
        => /\ last.call # "nothing"
           /\ last.id = "blurThisImage"
                 => TabMessage("blurSpecificImage", SrcUrl) \in tasks.tab
           /\ last.id = "unblurThisImage"
                 => TabMessage("unblurSpecificImage", SrcUrl) \in tasks.tab
(* C39: at most one frame-processing loop is active per video element at
   any time: no second loop is started while one is still scheduled or
   suspended in analysis. *)
C39_OneLoopPerVideo == \A e \in Elements : Loops(dom[e]) <= 1
====
